---------------------------- MODULE Spec2Model ----------------------------
(***************************************************************************)
(* Model of rs-puff.  The query-expression algebra: the Filter and RankBy  *)
(* trees (src/src/filter.rs, src/src/rank_by.rs), their builder functions  *)
(* and their hand-written serde encodings into positional JSON arrays,     *)
(* encoded in one piece or call by call on several threads.  The request   *)
(* side: the parameter structs (src/src/params.rs) and the namespace       *)
(* operations (src/src/namespace.rs, src/src/client.rs) against a server.  *)
(***************************************************************************)
EXTENDS Integers, Sequences, FiniteSets, TLC

VARIABLES
    filter,        \* Option<Filter>: the filter tree the caller has built
    filterJson,    \* Option<Json>: the encoding of `filter`, once serialized
    rank,          \* Option<RankBy>: the rank expression the caller has built
    rankJson,      \* Option<Json>: the encoding of `rank`, once serialized
    encoder,       \* per thread: where its serialize call is, and its output
    serializer,    \* per serializer: the stack of sequences being written
    overlapped,    \* a serializer call was made while two threads encoded
    server,        \* the namespaces that exist on the server
    call,          \* Option: the last namespace operation and its result
    history,       \* per namespace: the last write / delete_all and its result
    client,        \* Option<Client>: the client the namespace handles use
    constructed,   \* Option: how the client was constructed, and the result
    idFrom,        \* Option: the value an Id was converted from
    id,            \* Option<Id>: the Id the caller holds
    idJson,        \* Option<Json>: an Id on the wire
    idDecoded,     \* Option<Result<Id>>: what decoding `idJson` gave
    requestParams, \* Option: the QueryParams / WriteParams being filled in
    requestBody,   \* Option<Json>: the request body serialized from them
    responseBody,  \* Option<Json>: the body of a response being decoded
    decoded        \* Option: the struct it is decoded as, and the result

callerVars == <<filter, filterJson, rank, rankJson>>
encodingVars == <<encoder, serializer, overlapped>>
namespaceVars == <<server, call, history, client, constructed>>
requestVars == <<requestParams, requestBody, responseBody, decoded>>
idVars == <<idFrom, id, idJson, idDecoded>>
vars == <<callerVars, encodingVars, namespaceVars, requestVars, idVars>>

(***************************************************************************)
(* Bounds of the model.                                                    *)
(***************************************************************************)
\* Largest number of nodes of a tree the caller builds.
MaxNodes == 4
\* Longest operand list (In/NotIn/ContainsAny/NotContainsAny values, vectors).
MaxLen == 2

(***************************************************************************)
(* Option<T> and Result<T, E>                                              *)
(***************************************************************************)
None == [some |-> FALSE]
Some(x) == [some |-> TRUE, val |-> x]
Ok(x) == [ok |-> TRUE, val |-> x]
Err(e) == [ok |-> FALSE, err |-> e]

(***************************************************************************)
(* The JSON value domain (serde_json::Value, and what a serde_json         *)
(* serializer emits): a tag t and a payload v.                             *)
(***************************************************************************)
JNull == [t |-> "null", v |-> <<>>]
JBool(b) == [t |-> "bool", v |-> b]
\* an integer number, printed without a fraction (18)
JInt(n) == [t |-> "int", v |-> n]
\* a floating-point number, printed with a fraction (2.0)
JFloat(n) == [t |-> "float", v |-> n]
JStr(s) == [t |-> "str", v |-> s]
JArr(s) == [t |-> "arr", v |-> s]
\* an object: its entries in emission order, each [k |-> key, e |-> value]
JMap(entries) == [t |-> "map", v |-> entries]

IsNumber(j) == j.t \in {"int", "float"}

\* All sequences over S of length at most n.
SeqsUpTo(S, n) == UNION {[1..k -> S] : k \in 0..n}

(***************************************************************************)
(* Operand domains the caller draws from.                                  *)
(***************************************************************************)
Attrs == {"name", "And"}
Strings == {"foo*", "quick fox"}
Values == {JStr("foo"), JInt(18), JNull}
\* the elements of a Vec<Value>: a list may mix kinds of literal
ListValues == {JStr("active"), JInt(1)}
ValueLists == SeqsUpTo(ListValues, MaxLen)
Bools == {TRUE, FALSE}
OptBools == {None} \cup {Some(b) : b \in Bools}

(***************************************************************************)
(* ContainsAllTokensParams { last_as_prefix: Option<bool> }                *)
(***************************************************************************)
ContainsAllTokensParams(lap) == [last_as_prefix |-> lap]
AllContainsAllTokensParams == {ContainsAllTokensParams(o) : o \in OptBools}
OptContainsAllTokensParams ==
    {None} \cup {Some(p) : p \in AllContainsAllTokensParams}

(***************************************************************************)
(* enum Filter: one record shape per variant, `kind` the variant's name.   *)
(***************************************************************************)
ValueKinds ==
    {"Eq", "NotEq", "Lt", "Lte", "Gt", "Gte",
     "AnyLt", "AnyLte", "AnyGt", "AnyGte", "Contains", "NotContains"}
ValuesKinds == {"In", "NotIn", "ContainsAny", "NotContainsAny"}
PatternKinds == {"Glob", "NotGlob", "IGlob", "NotIGlob", "Regex"}
LogicalKinds == {"And", "Or", "Not"}
NonLogicalKinds ==
    ValueKinds \cup ValuesKinds \cup PatternKinds
        \cup {"ContainsAllTokens", "ContainsTokenSequence"}

FilterValue(kind, attr, value) ==
    [kind |-> kind, attr |-> attr, value |-> value]
FilterValues(kind, attr, values) ==
    [kind |-> kind, attr |-> attr, values |-> values]
FilterPattern(kind, attr, pattern) ==
    [kind |-> kind, attr |-> attr, pattern |-> pattern]
FilterContainsAllTokens(attr, value, params) ==
    [kind |-> "ContainsAllTokens", attr |-> attr, value |-> value,
     params |-> params]
FilterContainsTokenSequence(attr, value) ==
    [kind |-> "ContainsTokenSequence", attr |-> attr, value |-> value]
FilterAnd(filters) == [kind |-> "And", filters |-> filters]
FilterOr(filters) == [kind |-> "Or", filters |-> filters]
FilterNot(f) == [kind |-> "Not", filter |-> f]

(***************************************************************************)
(* impl Filter: the builder functions.                                     *)
(***************************************************************************)
Filter_eq(attr, value) == FilterValue("Eq", attr, value)
Filter_not_eq(attr, value) == FilterValue("NotEq", attr, value)
Filter_lt(attr, value) == FilterValue("Lt", attr, value)
Filter_lte(attr, value) == FilterValue("Lte", attr, value)
Filter_gt(attr, value) == FilterValue("Gt", attr, value)
Filter_gte(attr, value) == FilterValue("Gte", attr, value)
\* Filter_in validating its operand and failing on an empty list.
Filter_in_Validating(attr, values) ==
    IF values = <<>> THEN Err("empty list")
    ELSE FilterValues("In", attr, values)
Filter_in(attr, values) == FilterValues("In", attr, values)
Filter_not_in(attr, values) == FilterValues("NotIn", attr, values)
Filter_contains(attr, value) == FilterValue("Contains", attr, value)
Filter_contains_any(attr, values) == FilterValues("ContainsAny", attr, values)
Filter_glob(attr, pattern) == FilterPattern("Glob", attr, pattern)
Filter_iglob(attr, pattern) == FilterPattern("IGlob", attr, pattern)
Filter_regex(attr, pattern) == FilterPattern("Regex", attr, pattern)
Filter_and(filters) == FilterAnd(filters)
Filter_or(filters) == FilterOr(filters)
\* Filter_not simplifying a double negation away.
Filter_not_Collapsing(f) == IF f.kind = "Not" THEN f.filter ELSE FilterNot(f)
Filter_not(f) == FilterNot(f)

\* The variants the builder functions of impl Filter return.
FilterBuilderKinds ==
    {Filter_eq("name", JNull).kind, Filter_not_eq("name", JNull).kind,
     Filter_lt("name", JNull).kind, Filter_lte("name", JNull).kind,
     Filter_gt("name", JNull).kind, Filter_gte("name", JNull).kind,
     Filter_in("name", <<JNull>>).kind, Filter_not_in("name", <<JNull>>).kind,
     Filter_contains("name", JNull).kind,
     Filter_contains_any("name", <<JNull>>).kind,
     Filter_glob("name", "foo*").kind, Filter_iglob("name", "foo*").kind,
     Filter_regex("name", "foo*").kind, Filter_and(<<>>).kind,
     Filter_or(<<>>).kind, Filter_not(Filter_and(<<>>)).kind}

\* The variants that have no builder function are built as enum literals,
\* and so are leaves on attributes named like a logical operator's tag.
FilterLiterals ==
    {FilterValue(k, a, v) :
        k \in {"AnyLt", "AnyLte", "AnyGt", "AnyGte", "NotContains"},
        a \in Attrs, v \in Values}
    \cup {FilterValues("NotContainsAny", a, vs) : a \in Attrs, vs \in ValueLists}
    \cup {FilterPattern(k, a, p) :
            k \in {"NotGlob", "NotIGlob"}, a \in Attrs, p \in Strings}
    \cup {FilterContainsTokenSequence(a, s) : a \in Attrs, s \in Strings}
    \cup {FilterValue("Eq", a, JStr("foo")) : a \in {"Or", "Not"}}
    \cup {FilterValues("In", a, <<>>) : a \in {"Or", "Not"}}

\* Number of nodes of a filter tree.
RECURSIVE FilterSize(_), FilterSizes(_)
FilterSize(f) ==
    IF f.kind \in {"And", "Or"} THEN 1 + FilterSizes(f.filters)
    ELSE IF f.kind = "Not" THEN 1 + FilterSize(f.filter)
    ELSE 1
FilterSizes(fs) ==
    IF fs = <<>> THEN 0 ELSE FilterSize(Head(fs)) + FilterSizes(Tail(fs))

(***************************************************************************)
(* serde's sequence serializer: serialize_seq, serialize_element, end.     *)
(* A String or &str element is emitted as a JSON string, a Vec<T> as the   *)
(* array of its elements' encodings in iteration order, a                  *)
(* serde_json::Value as itself.                                            *)
(***************************************************************************)
serialize_seq == <<>>
serialize_element(seq, json) == Append(seq, json)
seq_end(seq) == JArr(seq)
serialize_str(s) == JStr(s)
serialize_value(value) == value
\* serialize_vec iterating the Vec from its last member to its first.
serialize_vec_Reversed(encoded) ==
    JArr([i \in 1..Len(encoded) |-> encoded[Len(encoded) + 1 - i]])
serialize_vec(encoded) == JArr(encoded)

(***************************************************************************)
(* impl Serialize for ContainsAllTokensParams: a map holding               *)
(* last_as_prefix only when it is Some.                                    *)
(***************************************************************************)
\* ContainsAllTokensParams_serialize writing the key in camel case.
ContainsAllTokensParams_serialize_CamelKey(p) ==
    JMap(IF p.last_as_prefix.some
         THEN <<[k |-> "lastAsPrefix", e |-> JBool(p.last_as_prefix.val)]>>
         ELSE <<>>)
ContainsAllTokensParams_serialize(p) ==
    JMap(IF p.last_as_prefix.some
         THEN <<[k |-> "last_as_prefix", e |-> JBool(p.last_as_prefix.val)]>>
         ELSE <<>>)

(***************************************************************************)
(* impl Serialize for Filter: the arms of the match, one operator each.    *)
(***************************************************************************)
Arm_Eq(attr, value) ==
    LET s0 == serialize_seq
        s1 == serialize_element(s0, serialize_str(attr))
        s2 == serialize_element(s1, serialize_str("Eq"))
        s3 == serialize_element(s2, serialize_value(value))
    IN  seq_end(s3)
Arm_NotEq(attr, value) ==
    LET s0 == serialize_seq
        s1 == serialize_element(s0, serialize_str(attr))
        s2 == serialize_element(s1, serialize_str("NotEq"))
        s3 == serialize_element(s2, serialize_value(value))
    IN  seq_end(s3)
Arm_Lt(attr, value) ==
    LET s0 == serialize_seq
        s1 == serialize_element(s0, serialize_str(attr))
        s2 == serialize_element(s1, serialize_str("Lt"))
        s3 == serialize_element(s2, serialize_value(value))
    IN  seq_end(s3)
Arm_Lte(attr, value) ==
    LET s0 == serialize_seq
        s1 == serialize_element(s0, serialize_str(attr))
        s2 == serialize_element(s1, serialize_str("Lte"))
        s3 == serialize_element(s2, serialize_value(value))
    IN  seq_end(s3)
Arm_Gt(attr, value) ==
    LET s0 == serialize_seq
        s1 == serialize_element(s0, serialize_str(attr))
        s2 == serialize_element(s1, serialize_str("Gt"))
        s3 == serialize_element(s2, serialize_value(value))
    IN  seq_end(s3)
Arm_Gte(attr, value) ==
    LET s0 == serialize_seq
        s1 == serialize_element(s0, serialize_str(attr))
        s2 == serialize_element(s1, serialize_str("Gte"))
        s3 == serialize_element(s2, serialize_value(value))
    IN  seq_end(s3)
Arm_AnyLt(attr, value) ==
    LET s0 == serialize_seq
        s1 == serialize_element(s0, serialize_str(attr))
        s2 == serialize_element(s1, serialize_str("AnyLt"))
        s3 == serialize_element(s2, serialize_value(value))
    IN  seq_end(s3)
Arm_AnyLte(attr, value) ==
    LET s0 == serialize_seq
        s1 == serialize_element(s0, serialize_str(attr))
        s2 == serialize_element(s1, serialize_str("AnyLte"))
        s3 == serialize_element(s2, serialize_value(value))
    IN  seq_end(s3)
Arm_AnyGt(attr, value) ==
    LET s0 == serialize_seq
        s1 == serialize_element(s0, serialize_str(attr))
        s2 == serialize_element(s1, serialize_str("AnyGt"))
        s3 == serialize_element(s2, serialize_value(value))
    IN  seq_end(s3)
Arm_AnyGte(attr, value) ==
    LET s0 == serialize_seq
        s1 == serialize_element(s0, serialize_str(attr))
        s2 == serialize_element(s1, serialize_str("AnyGte"))
        s3 == serialize_element(s2, serialize_value(value))
    IN  seq_end(s3)
Arm_In(attr, values) ==
    LET s0 == serialize_seq
        s1 == serialize_element(s0, serialize_str(attr))
        s2 == serialize_element(s1, serialize_str("In"))
        s3 == serialize_element(s2, serialize_vec([i \in 1..Len(values) |-> serialize_value(values[i])]))
    IN  seq_end(s3)
\* Arm_NotIn with the tag of the arm above it left in place.
Arm_NotIn_TagOfIn(attr, values) ==
    JArr(<<JStr(attr), JStr("In"),
           JArr([i \in 1..Len(values) |-> values[i]])>>)
Arm_NotIn(attr, values) ==
    LET s0 == serialize_seq
        s1 == serialize_element(s0, serialize_str(attr))
        s2 == serialize_element(s1, serialize_str("NotIn"))
        s3 == serialize_element(s2, serialize_vec([i \in 1..Len(values) |-> serialize_value(values[i])]))
    IN  seq_end(s3)
Arm_Contains(attr, value) ==
    LET s0 == serialize_seq
        s1 == serialize_element(s0, serialize_str(attr))
        s2 == serialize_element(s1, serialize_str("Contains"))
        s3 == serialize_element(s2, serialize_value(value))
    IN  seq_end(s3)
Arm_NotContains(attr, value) ==
    LET s0 == serialize_seq
        s1 == serialize_element(s0, serialize_str(attr))
        s2 == serialize_element(s1, serialize_str("NotContains"))
        s3 == serialize_element(s2, serialize_value(value))
    IN  seq_end(s3)
Arm_ContainsAny(attr, values) ==
    LET s0 == serialize_seq
        s1 == serialize_element(s0, serialize_str(attr))
        s2 == serialize_element(s1, serialize_str("ContainsAny"))
        s3 == serialize_element(s2, serialize_vec([i \in 1..Len(values) |-> serialize_value(values[i])]))
    IN  seq_end(s3)
Arm_NotContainsAny(attr, values) ==
    LET s0 == serialize_seq
        s1 == serialize_element(s0, serialize_str(attr))
        s2 == serialize_element(s1, serialize_str("NotContainsAny"))
        s3 == serialize_element(s2, serialize_vec([i \in 1..Len(values) |-> serialize_value(values[i])]))
    IN  seq_end(s3)
Arm_Glob(attr, pattern) ==
    LET s0 == serialize_seq
        s1 == serialize_element(s0, serialize_str(attr))
        s2 == serialize_element(s1, serialize_str("Glob"))
        s3 == serialize_element(s2, serialize_str(pattern))
    IN  seq_end(s3)
Arm_NotGlob(attr, pattern) ==
    LET s0 == serialize_seq
        s1 == serialize_element(s0, serialize_str(attr))
        s2 == serialize_element(s1, serialize_str("NotGlob"))
        s3 == serialize_element(s2, serialize_str(pattern))
    IN  seq_end(s3)
Arm_IGlob(attr, pattern) ==
    LET s0 == serialize_seq
        s1 == serialize_element(s0, serialize_str(attr))
        s2 == serialize_element(s1, serialize_str("IGlob"))
        s3 == serialize_element(s2, serialize_str(pattern))
    IN  seq_end(s3)
Arm_NotIGlob(attr, pattern) ==
    LET s0 == serialize_seq
        s1 == serialize_element(s0, serialize_str(attr))
        s2 == serialize_element(s1, serialize_str("NotIGlob"))
        s3 == serialize_element(s2, serialize_str(pattern))
    IN  seq_end(s3)
Arm_Regex(attr, pattern) ==
    LET s0 == serialize_seq
        s1 == serialize_element(s0, serialize_str(attr))
        s2 == serialize_element(s1, serialize_str("Regex"))
        s3 == serialize_element(s2, serialize_str(pattern))
    IN  seq_end(s3)
Arm_ContainsTokenSequence(attr, value) ==
    LET s0 == serialize_seq
        s1 == serialize_element(s0, serialize_str(attr))
        s2 == serialize_element(s1, serialize_str("ContainsTokenSequence"))
        s3 == serialize_element(s2, serialize_str(value))
    IN  seq_end(s3)
\* Arm_ContainsAllTokens leaving out params that hold nothing.
Arm_ContainsAllTokens_EmptyParamsOmitted(attr, value, params) ==
    IF params.some /\ params.val.last_as_prefix.some
    THEN LET s0 == serialize_seq
             s1 == serialize_element(s0, serialize_str(attr))
             s2 == serialize_element(s1, serialize_str("ContainsAllTokens"))
             s3 == serialize_element(s2, serialize_str(value))
             s4 == serialize_element(s3,
                       ContainsAllTokensParams_serialize(params.val))
         IN  seq_end(s4)
    ELSE LET s0 == serialize_seq
             s1 == serialize_element(s0, serialize_str(attr))
             s2 == serialize_element(s1, serialize_str("ContainsAllTokens"))
             s3 == serialize_element(s2, serialize_str(value))
         IN  seq_end(s3)
Arm_ContainsAllTokens(attr, value, params) ==
    IF params.some
    THEN LET s0 == serialize_seq
             s1 == serialize_element(s0, serialize_str(attr))
             s2 == serialize_element(s1, serialize_str("ContainsAllTokens"))
             s3 == serialize_element(s2, serialize_str(value))
             s4 == serialize_element(s3,
                       ContainsAllTokensParams_serialize(params.val))
         IN  seq_end(s4)
    ELSE LET s0 == serialize_seq
             s1 == serialize_element(s0, serialize_str(attr))
             s2 == serialize_element(s1, serialize_str("ContainsAllTokens"))
             s3 == serialize_element(s2, serialize_str(value))
         IN  seq_end(s3)
\* Arm_And with the children spliced into the outer array.
Arm_And_Flattened(filters) == JArr(<<JStr("And")>> \o filters)
\* `filters` are the children's encodings, in the order of the Vec.
Arm_And(filters) ==
    LET s0 == serialize_seq
        s1 == serialize_element(s0, serialize_str("And"))
        s2 == serialize_element(s1, serialize_vec(filters))
    IN  seq_end(s2)
\* `filters` are the children's encodings, in the order of the Vec.
Arm_Or(filters) ==
    LET s0 == serialize_seq
        s1 == serialize_element(s0, serialize_str("Or"))
        s2 == serialize_element(s1, serialize_vec(filters))
    IN  seq_end(s2)
\* Arm_Not with the child serialized as a one-element list.
Arm_Not_Wrapped(child) == JArr(<<JStr("Not"), JArr(<<child>>)>>)
\* `child` is the encoding of the boxed filter.
Arm_Not(child) ==
    LET s0 == serialize_seq
        s1 == serialize_element(s0, serialize_str("Not"))
        s2 == serialize_element(s1, child)
    IN  seq_end(s2)

RECURSIVE Filter_serialize(_)
Filter_serialize(f) ==
    CASE f.kind = "Eq" -> Arm_Eq(f.attr, f.value)
      [] f.kind = "NotEq" -> Arm_NotEq(f.attr, f.value)
      [] f.kind = "Lt" -> Arm_Lt(f.attr, f.value)
      [] f.kind = "Lte" -> Arm_Lte(f.attr, f.value)
      [] f.kind = "Gt" -> Arm_Gt(f.attr, f.value)
      [] f.kind = "Gte" -> Arm_Gte(f.attr, f.value)
      [] f.kind = "AnyLt" -> Arm_AnyLt(f.attr, f.value)
      [] f.kind = "AnyLte" -> Arm_AnyLte(f.attr, f.value)
      [] f.kind = "AnyGt" -> Arm_AnyGt(f.attr, f.value)
      [] f.kind = "AnyGte" -> Arm_AnyGte(f.attr, f.value)
      [] f.kind = "In" -> Arm_In(f.attr, f.values)
      [] f.kind = "NotIn" -> Arm_NotIn(f.attr, f.values)
      [] f.kind = "Contains" -> Arm_Contains(f.attr, f.value)
      [] f.kind = "NotContains" -> Arm_NotContains(f.attr, f.value)
      [] f.kind = "ContainsAny" -> Arm_ContainsAny(f.attr, f.values)
      [] f.kind = "NotContainsAny" -> Arm_NotContainsAny(f.attr, f.values)
      [] f.kind = "Glob" -> Arm_Glob(f.attr, f.pattern)
      [] f.kind = "NotGlob" -> Arm_NotGlob(f.attr, f.pattern)
      [] f.kind = "IGlob" -> Arm_IGlob(f.attr, f.pattern)
      [] f.kind = "NotIGlob" -> Arm_NotIGlob(f.attr, f.pattern)
      [] f.kind = "Regex" -> Arm_Regex(f.attr, f.pattern)
      [] f.kind = "ContainsTokenSequence" -> Arm_ContainsTokenSequence(f.attr, f.value)
      [] f.kind = "ContainsAllTokens" ->
            Arm_ContainsAllTokens(f.attr, f.value, f.params)
      [] f.kind = "And" ->
            Arm_And([i \in 1..Len(f.filters) |-> Filter_serialize(f.filters[i])])
      [] f.kind = "Or" ->
            Arm_Or([i \in 1..Len(f.filters) |-> Filter_serialize(f.filters[i])])
      [] f.kind = "Not" -> Arm_Not(Filter_serialize(f.filter))

(***************************************************************************)
(* The caller: builds a first filter with a builder function (or an enum   *)
(* literal), composes it into larger trees with and/or/not, and serializes *)
(* what it has built.  A freshly built filter has not been encoded yet.    *)
(***************************************************************************)
\* The threads that may encode a shared tree, each with its own serializer.
Threads == {1, 2}
\* A thread that has not called serialize.
IdleEncoder == [pc |-> "idle", self |-> None, out |-> None, calls |-> 0]
\* The namespaces the client holds a handle for.
Names == {"docs", "logs"}

\* Nothing is built, no thread encodes, no namespace was ever written and no
\* request was made.
Init ==
    /\ filter = None
    /\ filterJson = None
    /\ rank = None
    /\ rankJson = None
    /\ encoder = [t \in Threads |-> IdleEncoder]
    /\ serializer = [t \in Threads |-> <<>>]
    /\ overlapped = FALSE
    /\ server = {}
    /\ call = None
    /\ history = [n \in Names |-> None]
    /\ client = None
    /\ constructed = None
    /\ requestParams = None
    /\ requestBody = None
    /\ responseBody = None
    /\ decoded = None
    /\ idFrom = None
    /\ id = None
    /\ idJson = None
    /\ idDecoded = None

\* The Vec<Filter> handed to and/or: made of the tree built so far (used at
\* least once) and fresh leaves; before anything is built, of fresh leaves
\* alone, the empty Vec included.
FilterChildLeaves == {Filter_gt("age", JInt(18))}
FilterPool == FilterChildLeaves \cup (IF filter.some THEN {filter.val} ELSE {})
\* The node count of a Vec of n filters, given each pooled filter's size.
RECURSIVE SumOf(_, _, _)
SumOf(size, cs, n) ==
    IF n = 0 THEN 0 ELSE size[cs[n]] + SumOf(size, cs, n - 1)
FilterChildLists(size) ==
    UNION {{cs \in [1..n -> FilterPool] :
                /\ SumOf(size, cs, n) < MaxNodes
                /\ filter.some => \E i \in 1..n : cs[i] = filter.val} :
           n \in 0..(MaxNodes - 1)}
FilterPoolSizes == {[g \in FilterPool |-> FilterSize(g)]}

BuildEq ==
    /\ filter = None
    /\ \E a \in Attrs, v \in Values :
        /\ filter' = Some(Filter_eq(a, v))
        /\ filterJson' = None
        /\ UNCHANGED <<rank, rankJson>>
        /\ UNCHANGED <<encodingVars, namespaceVars, requestVars, idVars>>
BuildNotEq ==
    /\ filter = None
    /\ \E a \in Attrs, v \in Values :
        /\ filter' = Some(Filter_not_eq(a, v))
        /\ filterJson' = None
        /\ UNCHANGED <<rank, rankJson>>
        /\ UNCHANGED <<encodingVars, namespaceVars, requestVars, idVars>>
BuildLt ==
    /\ filter = None
    /\ \E a \in Attrs, v \in Values :
        /\ filter' = Some(Filter_lt(a, v))
        /\ filterJson' = None
        /\ UNCHANGED <<rank, rankJson>>
        /\ UNCHANGED <<encodingVars, namespaceVars, requestVars, idVars>>
BuildLte ==
    /\ filter = None
    /\ \E a \in Attrs, v \in Values :
        /\ filter' = Some(Filter_lte(a, v))
        /\ filterJson' = None
        /\ UNCHANGED <<rank, rankJson>>
        /\ UNCHANGED <<encodingVars, namespaceVars, requestVars, idVars>>
BuildGt ==
    /\ filter = None
    /\ \E a \in Attrs, v \in Values :
        /\ filter' = Some(Filter_gt(a, v))
        /\ filterJson' = None
        /\ UNCHANGED <<rank, rankJson>>
        /\ UNCHANGED <<encodingVars, namespaceVars, requestVars, idVars>>
BuildGte ==
    /\ filter = None
    /\ \E a \in Attrs, v \in Values :
        /\ filter' = Some(Filter_gte(a, v))
        /\ filterJson' = None
        /\ UNCHANGED <<rank, rankJson>>
        /\ UNCHANGED <<encodingVars, namespaceVars, requestVars, idVars>>
BuildContains ==
    /\ filter = None
    /\ \E a \in Attrs, v \in Values :
        /\ filter' = Some(Filter_contains(a, v))
        /\ filterJson' = None
        /\ UNCHANGED <<rank, rankJson>>
        /\ UNCHANGED <<encodingVars, namespaceVars, requestVars, idVars>>
BuildIn ==
    /\ filter = None
    /\ \E a \in Attrs, vs \in ValueLists :
        /\ filter' = Some(Filter_in(a, vs))
        /\ filterJson' = None
        /\ UNCHANGED <<rank, rankJson>>
        /\ UNCHANGED <<encodingVars, namespaceVars, requestVars, idVars>>
BuildNotIn ==
    /\ filter = None
    /\ \E a \in Attrs, vs \in ValueLists :
        /\ filter' = Some(Filter_not_in(a, vs))
        /\ filterJson' = None
        /\ UNCHANGED <<rank, rankJson>>
        /\ UNCHANGED <<encodingVars, namespaceVars, requestVars, idVars>>
BuildContainsAny ==
    /\ filter = None
    /\ \E a \in Attrs, vs \in ValueLists :
        /\ filter' = Some(Filter_contains_any(a, vs))
        /\ filterJson' = None
        /\ UNCHANGED <<rank, rankJson>>
        /\ UNCHANGED <<encodingVars, namespaceVars, requestVars, idVars>>
BuildGlob ==
    /\ filter = None
    /\ \E a \in Attrs, p \in Strings :
        /\ filter' = Some(Filter_glob(a, p))
        /\ filterJson' = None
        /\ UNCHANGED <<rank, rankJson>>
        /\ UNCHANGED <<encodingVars, namespaceVars, requestVars, idVars>>
BuildIGlob ==
    /\ filter = None
    /\ \E a \in Attrs, p \in Strings :
        /\ filter' = Some(Filter_iglob(a, p))
        /\ filterJson' = None
        /\ UNCHANGED <<rank, rankJson>>
        /\ UNCHANGED <<encodingVars, namespaceVars, requestVars, idVars>>
BuildRegex ==
    /\ filter = None
    /\ \E a \in Attrs, p \in Strings :
        /\ filter' = Some(Filter_regex(a, p))
        /\ filterJson' = None
        /\ UNCHANGED <<rank, rankJson>>
        /\ UNCHANGED <<encodingVars, namespaceVars, requestVars, idVars>>
BuildFilterLiteral ==
    /\ filter = None
    /\ \E f \in FilterLiterals :
        /\ filter' = Some(f)
        /\ filterJson' = None
        /\ UNCHANGED <<rank, rankJson>>
        /\ UNCHANGED <<encodingVars, namespaceVars, requestVars, idVars>>
BuildContainsAllTokens ==
    /\ filter = None
    /\ \E a \in Attrs, v \in Strings, p \in OptContainsAllTokensParams :
        /\ filter' = Some(FilterContainsAllTokens(a, v, p))
        /\ filterJson' = None
        /\ UNCHANGED <<rank, rankJson>>
        /\ UNCHANGED <<encodingVars, namespaceVars, requestVars, idVars>>
BuildAnd ==
    \E size \in FilterPoolSizes : \E cs \in FilterChildLists(size) :
        /\ filter' = Some(Filter_and(cs))
        /\ filterJson' = None
        /\ UNCHANGED <<rank, rankJson>>
        /\ UNCHANGED <<encodingVars, namespaceVars, requestVars, idVars>>
BuildOr ==
    \E size \in FilterPoolSizes : \E cs \in FilterChildLists(size) :
        /\ filter' = Some(Filter_or(cs))
        /\ filterJson' = None
        /\ UNCHANGED <<rank, rankJson>>
        /\ UNCHANGED <<encodingVars, namespaceVars, requestVars, idVars>>
BuildNot ==
    /\ filter.some
    /\ FilterSize(filter.val) < MaxNodes
    /\ filter' = Some(Filter_not(filter.val))
    /\ filterJson' = None
    /\ UNCHANGED <<rank, rankJson>>
    /\ UNCHANGED <<encodingVars, namespaceVars, requestVars, idVars>>

\* serde_json::to_value(&filter): the tree is borrowed, not changed.
SerializeFilter ==
    /\ filter.some
    /\ filterJson' = Some(Filter_serialize(filter.val))
    /\ UNCHANGED <<filter, rank, rankJson>>
    /\ UNCHANGED <<encodingVars, namespaceVars, requestVars, idVars>>

NextFilter ==
    \/ BuildEq
    \/ BuildNotEq
    \/ BuildLt
    \/ BuildLte
    \/ BuildGt
    \/ BuildGte
    \/ BuildContains
    \/ BuildIn
    \/ BuildNotIn
    \/ BuildContainsAny
    \/ BuildGlob
    \/ BuildIGlob
    \/ BuildRegex
    \/ BuildFilterLiteral
    \/ BuildContainsAllTokens
    \/ BuildAnd
    \/ BuildOr
    \/ BuildNot
    \/ SerializeFilter

SpecFilter == Init /\ [][NextFilter]_vars

(***************************************************************************)
(* Floating-point operands (f32 vector elements, the f64 weight): a finite *)
(* value, or one of the non-finite ones.                                   *)
(***************************************************************************)
Finite(n) == [cls |-> "finite", val |-> n]
NaN == [cls |-> "nan", val |-> 0]
Infinity == [cls |-> "inf", val |-> 1]
F32s == {Finite(1), NaN}
Vectors == SeqsUpTo(F32s, MaxLen)
Weights == {Finite(2), NaN, Infinity}

(***************************************************************************)
(* enum Order, struct Bm25Params, enum RankBy.                             *)
(***************************************************************************)
Orders == {"Asc", "Desc"}
Bm25Params(lap) == [last_as_prefix |-> lap]
AllBm25Params == {Bm25Params(o) : o \in OptBools}

RankVector(attr, query) == [kind |-> "Vector", attr |-> attr, query |-> query]
RankVectorKnn(attr, query) ==
    [kind |-> "VectorKnn", attr |-> attr, query |-> query]
RankBm25(attr, query, params) ==
    [kind |-> "Bm25", attr |-> attr, query |-> query, params |-> params]
RankAttribute(attr, order) ==
    [kind |-> "Attribute", attr |-> attr, order |-> order]
RankSum(subqueries) == [kind |-> "Sum", subqueries |-> subqueries]
RankMax(subqueries) == [kind |-> "Max", subqueries |-> subqueries]
RankProduct(weight, subquery) ==
    [kind |-> "Product", weight |-> weight, subquery |-> subquery]

(***************************************************************************)
(* impl RankBy: the builder functions.                                     *)
(***************************************************************************)
RankBy_vector(attr, query) == RankVector(attr, query)
RankBy_vector_knn(attr, query) == RankVectorKnn(attr, query)
RankBy_bm25(attr, query) == RankBm25(attr, query, None)
RankBy_bm25_with_params(attr, query, params) ==
    RankBm25(attr, query, Some(params))
RankBy_attribute(attr, order) == RankAttribute(attr, order)
RankBy_asc(attr) == RankAttribute(attr, "Asc")
RankBy_desc(attr) == RankAttribute(attr, "Desc")
RankBy_sum(subqueries) == RankSum(subqueries)
RankBy_max(subqueries) == RankMax(subqueries)
RankBy_product(weight, subquery) == RankProduct(weight, subquery)

\* Number of nodes of a rank expression.
RECURSIVE RankSize(_), RankSizes(_)
RankSize(r) ==
    IF r.kind \in {"Sum", "Max"} THEN 1 + RankSizes(r.subqueries)
    ELSE IF r.kind = "Product" THEN 1 + RankSize(r.subquery)
    ELSE 1
RankSizes(rs) ==
    IF rs = <<>> THEN 0 ELSE RankSize(Head(rs)) + RankSizes(Tail(rs))

(***************************************************************************)
(* What serde and serde_json emit for the operand types of RankBy.         *)
(***************************************************************************)
\* serde_json writes a finite float as a number and a NaN or an infinity as
\* null (JSON has no literal for them).
serialize_f32(x) == IF x.cls = "finite" THEN JFloat(x.val) ELSE JNull
serialize_f64(x) == IF x.cls = "finite" THEN JFloat(x.val) ELSE JNull
\* Order_serialize without the rename_all attribute.
Order_serialize_NoRename(order) == JStr(order)
\* #[serde(rename_all = "lowercase")] on the unit variants of Order
Order_serialize(order) ==
    CASE order = "Asc" -> JStr("asc")
      [] order = "Desc" -> JStr("desc")
\* #[derive(Serialize)] with skip_serializing_if = "Option::is_none"
Bm25Params_serialize(p) ==
    JMap(IF p.last_as_prefix.some
         THEN <<[k |-> "last_as_prefix", e |-> JBool(p.last_as_prefix.val)]>>
         ELSE <<>>)

(***************************************************************************)
(* impl Serialize for RankBy: the arms of the match, one operator each.    *)
(***************************************************************************)
Arm_Vector(attr, query) ==
    LET s0 == serialize_seq
        s1 == serialize_element(s0, serialize_str(attr))
        s2 == serialize_element(s1, serialize_str("ANN"))
        s3 == serialize_element(s2,
                  serialize_vec([i \in 1..Len(query) |-> serialize_f32(query[i])]))
    IN  seq_end(s3)
\* Arm_VectorKnn with the tag in the casing of the other tags.
Arm_VectorKnn_UpperTag(attr, query) ==
    JArr(<<JStr(attr), JStr("KNN"),
           JArr([i \in 1..Len(query) |-> serialize_f32(query[i])])>>)
Arm_VectorKnn(attr, query) ==
    LET s0 == serialize_seq
        s1 == serialize_element(s0, serialize_str(attr))
        s2 == serialize_element(s1, serialize_str("kNN"))
        s3 == serialize_element(s2,
                  serialize_vec([i \in 1..Len(query) |-> serialize_f32(query[i])]))
    IN  seq_end(s3)
\* Arm_Bm25 always emitting the fourth element, null when params is None.
Arm_Bm25_NullParams(attr, query, params) ==
    JArr(<<JStr(attr), JStr("BM25"), JStr(query),
           IF params.some THEN Bm25Params_serialize(params.val) ELSE JNull>>)
Arm_Bm25(attr, query, params) ==
    IF params.some
    THEN LET s0 == serialize_seq
             s1 == serialize_element(s0, serialize_str(attr))
             s2 == serialize_element(s1, serialize_str("BM25"))
             s3 == serialize_element(s2, serialize_str(query))
             s4 == serialize_element(s3, Bm25Params_serialize(params.val))
         IN  seq_end(s4)
    ELSE LET s0 == serialize_seq
             s1 == serialize_element(s0, serialize_str(attr))
             s2 == serialize_element(s1, serialize_str("BM25"))
             s3 == serialize_element(s2, serialize_str(query))
         IN  seq_end(s3)
Arm_Attribute(attr, order) ==
    LET s0 == serialize_seq
        s1 == serialize_element(s0, serialize_str(attr))
        s2 == serialize_element(s1, Order_serialize(order))
    IN  seq_end(s2)
\* `subqueries` are the children's encodings, in the order of the Vec.
Arm_Sum(subqueries) ==
    LET s0 == serialize_seq
        s1 == serialize_element(s0, serialize_str("Sum"))
        s2 == serialize_element(s1, serialize_vec(subqueries))
    IN  seq_end(s2)
\* Arm_Max with the tag of the arm above it left in place.
Arm_Max_TagOfSum(subqueries) == JArr(<<JStr("Sum"), JArr(subqueries)>>)
Arm_Max(subqueries) ==
    LET s0 == serialize_seq
        s1 == serialize_element(s0, serialize_str("Max"))
        s2 == serialize_element(s1, serialize_vec(subqueries))
    IN  seq_end(s2)
\* `subquery` is the encoding of the boxed rank expression.
Arm_Product(weight, subquery) ==
    LET s0 == serialize_seq
        s1 == serialize_element(s0, serialize_str("Product"))
        s2 == serialize_element(s1, serialize_f64(weight))
        s3 == serialize_element(s2, subquery)
    IN  seq_end(s3)

RECURSIVE RankBy_serialize(_)
RankBy_serialize(r) ==
    CASE r.kind = "Vector" -> Arm_Vector(r.attr, r.query)
      [] r.kind = "VectorKnn" -> Arm_VectorKnn(r.attr, r.query)
      [] r.kind = "Bm25" -> Arm_Bm25(r.attr, r.query, r.params)
      [] r.kind = "Attribute" -> Arm_Attribute(r.attr, r.order)
      [] r.kind = "Sum" ->
            Arm_Sum([i \in 1..Len(r.subqueries) |->
                        RankBy_serialize(r.subqueries[i])])
      [] r.kind = "Max" ->
            Arm_Max([i \in 1..Len(r.subqueries) |->
                        RankBy_serialize(r.subqueries[i])])
      [] r.kind = "Product" ->
            Arm_Product(r.weight, RankBy_serialize(r.subquery))

(***************************************************************************)
(* The caller of RankBy: builds a first rank expression, composes it with  *)
(* sum/max/product, and serializes what it has built.                      *)
(***************************************************************************)
RankChildLeaves == {RankBy_bm25("content", "fox")}
RankPool == RankChildLeaves \cup (IF rank.some THEN {rank.val} ELSE {})
RankChildLists(size) ==
    UNION {{rs \in [1..n -> RankPool] :
                /\ SumOf(size, rs, n) < MaxNodes
                /\ rank.some => \E i \in 1..n : rs[i] = rank.val} :
           n \in 0..(MaxNodes - 1)}
RankPoolSizes == {[g \in RankPool |-> RankSize(g)]}

BuildVector ==
    /\ rank = None
    /\ \E a \in Attrs, q \in Vectors :
        /\ rank' = Some(RankBy_vector(a, q))
        /\ rankJson' = None
        /\ UNCHANGED <<filter, filterJson>>
        /\ UNCHANGED <<encodingVars, namespaceVars, requestVars, idVars>>
BuildVectorKnn ==
    /\ rank = None
    /\ \E a \in Attrs, q \in Vectors :
        /\ rank' = Some(RankBy_vector_knn(a, q))
        /\ rankJson' = None
        /\ UNCHANGED <<filter, filterJson>>
        /\ UNCHANGED <<encodingVars, namespaceVars, requestVars, idVars>>
BuildBm25 ==
    /\ rank = None
    /\ \E a \in Attrs, q \in Strings :
        /\ rank' = Some(RankBy_bm25(a, q))
        /\ rankJson' = None
        /\ UNCHANGED <<filter, filterJson>>
        /\ UNCHANGED <<encodingVars, namespaceVars, requestVars, idVars>>
BuildBm25WithParams ==
    /\ rank = None
    /\ \E a \in Attrs, q \in Strings, p \in AllBm25Params :
        /\ rank' = Some(RankBy_bm25_with_params(a, q, p))
        /\ rankJson' = None
        /\ UNCHANGED <<filter, filterJson>>
        /\ UNCHANGED <<encodingVars, namespaceVars, requestVars, idVars>>
BuildAttribute ==
    /\ rank = None
    /\ \E a \in Attrs, o \in Orders :
        /\ rank' = Some(RankBy_attribute(a, o))
        /\ rankJson' = None
        /\ UNCHANGED <<filter, filterJson>>
        /\ UNCHANGED <<encodingVars, namespaceVars, requestVars, idVars>>
BuildAsc ==
    /\ rank = None
    /\ \E a \in Attrs :
        /\ rank' = Some(RankBy_asc(a))
        /\ rankJson' = None
        /\ UNCHANGED <<filter, filterJson>>
        /\ UNCHANGED <<encodingVars, namespaceVars, requestVars, idVars>>
BuildDesc ==
    /\ rank = None
    /\ \E a \in Attrs :
        /\ rank' = Some(RankBy_desc(a))
        /\ rankJson' = None
        /\ UNCHANGED <<filter, filterJson>>
        /\ UNCHANGED <<encodingVars, namespaceVars, requestVars, idVars>>
BuildSum ==
    \E size \in RankPoolSizes : \E rs \in RankChildLists(size) :
        /\ rank' = Some(RankBy_sum(rs))
        /\ rankJson' = None
        /\ UNCHANGED <<filter, filterJson>>
        /\ UNCHANGED <<encodingVars, namespaceVars, requestVars, idVars>>
BuildMax ==
    \E size \in RankPoolSizes : \E rs \in RankChildLists(size) :
        /\ rank' = Some(RankBy_max(rs))
        /\ rankJson' = None
        /\ UNCHANGED <<filter, filterJson>>
        /\ UNCHANGED <<encodingVars, namespaceVars, requestVars, idVars>>
BuildProduct ==
    /\ rank.some
    /\ RankSize(rank.val) < MaxNodes
    /\ \E w \in Weights :
        /\ rank' = Some(RankBy_product(w, rank.val))
        /\ rankJson' = None
        /\ UNCHANGED <<filter, filterJson>>
        /\ UNCHANGED <<encodingVars, namespaceVars, requestVars, idVars>>

\* serde_json::to_value(&rank_by): the tree is borrowed, not changed.
SerializeRank ==
    /\ rank.some
    /\ rankJson' = Some(RankBy_serialize(rank.val))
    /\ UNCHANGED <<rank, filter, filterJson>>
    /\ UNCHANGED <<encodingVars, namespaceVars, requestVars, idVars>>

NextRank ==
    \/ BuildVector
    \/ BuildVectorKnn
    \/ BuildBm25
    \/ BuildBm25WithParams
    \/ BuildAttribute
    \/ BuildAsc
    \/ BuildDesc
    \/ BuildSum
    \/ BuildMax
    \/ BuildProduct
    \/ SerializeRank

SpecRank == Init /\ [][NextRank]_vars

(***************************************************************************)
(* The caller of the two operators that take optional parameters: a        *)
(* ContainsAllTokens filter and a BM25 rank expression, built and encoded  *)
(* for the same query.                                                     *)
(***************************************************************************)
NextParams ==
    \/ BuildContainsAllTokens
    \/ BuildBm25
    \/ BuildBm25WithParams
    \/ SerializeFilter
    \/ SerializeRank

SpecParams == Init /\ [][NextParams]_vars

(***************************************************************************)
(* The inverse parser of the parameter structs: their                      *)
(* #[derive(Deserialize)].  A struct is read from a JSON object (unknown   *)
(* keys are skipped) or from a JSON array of its fields in order; an       *)
(* Option field that is missing or null is None.                           *)
(***************************************************************************)
\* The value of the first entry of object `json` under `key`, if any.
MapGet(json, key) ==
    IF \E i \in 1..Len(json.v) : json.v[i].k = key
    THEN Some(json.v[CHOOSE i \in 1..Len(json.v) :
                        /\ json.v[i].k = key
                        /\ \A j \in 1..(i - 1) : json.v[j].k # key].e)
    ELSE None
\* Option<bool> read from a JSON value.
OptionBool_deserialize(json) ==
    IF json = JNull THEN Ok(None)
    ELSE IF json.t = "bool" THEN Ok(Some(json.v))
    ELSE Err("invalid type")
\* The one field of a parameter struct, located in the object or the array.
LastAsPrefix_deserialize(json) ==
    IF json.t = "map"
    THEN IF MapGet(json, "last_as_prefix").some
         THEN OptionBool_deserialize(MapGet(json, "last_as_prefix").val)
         ELSE Ok(None)
    ELSE IF json.t = "arr"
    THEN IF Len(json.v) >= 1 THEN OptionBool_deserialize(json.v[1])
         ELSE Err("invalid length")
    ELSE Err("invalid type")
ContainsAllTokensParams_deserialize(json) ==
    IF LastAsPrefix_deserialize(json).ok
    THEN Ok(ContainsAllTokensParams(LastAsPrefix_deserialize(json).val))
    ELSE LastAsPrefix_deserialize(json)
Bm25Params_deserialize(json) ==
    IF LastAsPrefix_deserialize(json).ok
    THEN Ok(Bm25Params(LastAsPrefix_deserialize(json).val))
    ELSE LastAsPrefix_deserialize(json)

(***************************************************************************)
(* The encoder call by call, on several threads.  An arm of impl Serialize *)
(* opens a sequence, hands its elements one by one to serialize_element    *)
(* and ends the sequence.  An element that is itself a Filter or a RankBy  *)
(* (a boxed child, or the members of a Vec) is serialized by a nested call *)
(* of serialize on the same serializer.  Every outer call is given a       *)
(* serializer of its own (`serializer: S`, by value) and borrows the tree  *)
(* (`&self`), which the threads share.                                     *)
(***************************************************************************)
\* Bound: the deepest tree (in nodes from the root to a leaf) that is shared.
MaxDepth == 6

\* What an arm hands to serialize_element: a value written in one call (a
\* string, a number, a serde_json::Value, a Vec of such, a params struct), or
\* a Filter / RankBy / Vec of them, written by nested serialize calls.
Scalar(json) == [is |-> "scalar", json |-> json]
FilterNode(f) == [is |-> "Filter", node |-> f]
RankNode(r) == [is |-> "RankBy", node |-> r]
FilterVec(fs) == [is |-> "Vec<Filter>", nodes |-> fs]
RankVec(rs) == [is |-> "Vec<RankBy>", nodes |-> rs]
\* The elements of an arm that holds no Filter / RankBy.
Scalars(json) == [i \in 1..Len(json.v) |-> Scalar(json.v[i])]

\* The serialize_element calls of the arm of `f`, in order.
Filter_elements(f) ==
    CASE f.kind = "And" ->
            <<Scalar(serialize_str("And")), FilterVec(f.filters)>>
      [] f.kind = "Or" ->
            <<Scalar(serialize_str("Or")), FilterVec(f.filters)>>
      [] f.kind = "Not" ->
            <<Scalar(serialize_str("Not")), FilterNode(f.filter)>>
      [] OTHER -> Scalars(Filter_serialize(f))
\* The serialize_element calls of the arm of `r`, in order.
RankBy_elements(r) ==
    CASE r.kind = "Sum" ->
            <<Scalar(serialize_str("Sum")), RankVec(r.subqueries)>>
      [] r.kind = "Max" ->
            <<Scalar(serialize_str("Max")), RankVec(r.subqueries)>>
      [] r.kind = "Product" ->
            <<Scalar(serialize_str("Product")),
              Scalar(serialize_f64(r.weight)), RankNode(r.subquery)>>
      [] OTHER -> Scalars(RankBy_serialize(r))
\* serde's impl Serialize for Vec<T>: one element per member, in order.
Vec_elements(e) ==
    [i \in 1..Len(e.nodes) |->
        IF e.is = "Vec<Filter>" THEN FilterNode(e.nodes[i])
        ELSE RankNode(e.nodes[i])]
ElementsOf(e) ==
    CASE e.is = "Filter" -> Filter_elements(e.node)
      [] e.is = "RankBy" -> RankBy_elements(e.node)
      [] e.is \in {"Vec<Filter>", "Vec<RankBy>"} -> Vec_elements(e)

\* A sequence being written: the elements still to hand over are those
\* after the ones already in `seq`.
Frame(elements) == [elements |-> elements, seq |-> serialize_seq]

\* serialize_child refusing to go deeper than four open sequences, writing
\* null for what lies below.
serialize_child_DepthCapped(stack, e) ==
    IF Len(stack) >= 4
    THEN [stack EXCEPT ![1].seq = Append(@, JNull)]
    ELSE <<Frame(ElementsOf(e))>> \o stack
\* serialize_child writing null for what has no elements.
serialize_child_EmptyAsNull(stack, e) ==
    IF ElementsOf(e) = <<>> /\ stack # <<>>
    THEN [stack EXCEPT ![1].seq = Append(@, JNull)]
    ELSE <<Frame(ElementsOf(e))>> \o stack
\* A (nested) call of serialize: it opens the sequence of `e` on top of the
\* sequences its callers have open.
serialize_child(stack, e) == <<Frame(ElementsOf(e))>> \o stack

\* One serializer for all the threads.
SerializerOf_Shared(t) == 1
\* The serializer thread t's call of serialize was given: its own.
SerializerOf(t) == t

\* The tree the threads hold a shared reference to.
SharedTree ==
    IF filter.some THEN Some(FilterNode(filter.val))
    ELSE IF rank.some THEN Some(RankNode(rank.val))
    ELSE None

\* Some other thread is in the middle of its serialize call.
OtherEncoding(t) == \E u \in Threads \ {t} : encoder[u].pc = "encoding"

(***************************************************************************)
(* The trees that are shared: operand lists of every length up to MaxLen,  *)
(* nestings of every depth up to MaxDepth, and what every builder returns  *)
(* for an empty attribute name and an empty list.                          *)
(***************************************************************************)
ListChildren == {Filter_eq("name", JStr("foo")), Filter_gt("age", JInt(18))}
ListFilters ==
    {Filter_in("status", vs) : vs \in ValueLists}
    \cup {Filter_not_in("status", vs) : vs \in ValueLists}
    \cup {Filter_contains_any("status", vs) : vs \in ValueLists}
    \cup {FilterValues("NotContainsAny", "status", vs) : vs \in ValueLists}
    \cup {Filter_and(cs) : cs \in SeqsUpTo(ListChildren, MaxLen)}
    \cup {Filter_or(cs) : cs \in SeqsUpTo(ListChildren, MaxLen)}
RECURSIVE FilterChain(_)
FilterChain(d) ==
    IF d <= 1 THEN Filter_eq("name", JStr("foo"))
    ELSE IF d % 3 = 2 THEN Filter_not(FilterChain(d - 1))
    ELSE IF d % 3 = 0
         THEN Filter_and(<<FilterChain(d - 1), Filter_gt("age", JInt(18))>>)
    ELSE Filter_or(<<Filter_gt("age", JInt(18)), FilterChain(d - 1)>>)
DeepFilters == {FilterChain(d) : d \in 1..MaxDepth}
EdgeFilters ==
    {Filter_eq("", JNull), Filter_not_eq("", JNull), Filter_lt("", JNull),
     Filter_lte("", JNull), Filter_gt("", JNull), Filter_gte("", JNull),
     Filter_in("", <<>>), Filter_not_in("", <<>>), Filter_contains("", JNull),
     Filter_contains_any("", <<>>), Filter_glob("", ""), Filter_iglob("", ""),
     Filter_regex("", ""), Filter_and(<<>>), Filter_or(<<>>),
     Filter_not(Filter_in("", <<>>))}
SharedFilters == ListFilters \cup DeepFilters \cup EdgeFilters

RankListChildren == {RankBy_bm25("title", "one"), RankBy_asc("name")}
ListRanks ==
    {RankBy_vector("embedding", q) : q \in Vectors}
    \cup {RankBy_vector_knn("embedding", q) : q \in Vectors}
    \cup {RankBy_sum(rs) : rs \in SeqsUpTo(RankListChildren, MaxLen)}
    \cup {RankBy_max(rs) : rs \in SeqsUpTo(RankListChildren, MaxLen)}
RECURSIVE RankChain(_)
RankChain(d) ==
    IF d <= 1 THEN RankBy_bm25("title", "one")
    ELSE IF d % 2 = 0 THEN RankBy_product(Finite(2), RankChain(d - 1))
    ELSE IF d % 4 = 3
         THEN RankBy_max(<<RankChain(d - 1), RankBy_bm25("content", "foo")>>)
    ELSE RankBy_sum(<<RankBy_bm25("content", "foo"), RankChain(d - 1)>>)
DeepRanks == {RankChain(d) : d \in 1..MaxDepth}
EdgeRanks ==
    {RankBy_vector("", <<>>), RankBy_vector_knn("", <<>>), RankBy_bm25("", ""),
     RankBy_bm25_with_params("", "", Bm25Params(None)),
     RankBy_attribute("", "Asc"), RankBy_asc(""), RankBy_desc(""),
     RankBy_sum(<<>>), RankBy_max(<<>>),
     RankBy_product(Finite(0), RankBy_vector("", <<>>))}
SharedRanks == ListRanks \cup DeepRanks \cup EdgeRanks

\* The caller builds a filter and shares it with the threads.
ShareFilter ==
    /\ filter = None
    /\ rank = None
    /\ \E f \in SharedFilters :
        /\ filter' = Some(f)
        /\ UNCHANGED <<filterJson, rank, rankJson>>
        /\ UNCHANGED <<encodingVars, namespaceVars, requestVars, idVars>>
\* The caller builds a rank expression and shares it with the threads.
ShareRank ==
    /\ filter = None
    /\ rank = None
    /\ \E r \in SharedRanks :
        /\ rank' = Some(r)
        /\ UNCHANGED <<filter, filterJson, rankJson>>
        /\ UNCHANGED <<encodingVars, namespaceVars, requestVars, idVars>>

\* Serialize taking the tree out of the shared slot instead of borrowing it.
Serialize_Consuming(t) ==
    /\ encoder[t].pc = "idle"
    /\ SharedTree.some
    /\ encoder' = [encoder EXCEPT ![t] =
          [pc |-> "encoding", self |-> SharedTree, out |-> None, calls |-> 1]]
    /\ serializer' = [serializer EXCEPT ![SerializerOf(t)] =
          serialize_child(@, SharedTree.val)]
    /\ overlapped' = (overlapped \/ OtherEncoding(t))
    /\ filter' = None
    /\ rank' = None
    /\ UNCHANGED <<filterJson, rankJson, namespaceVars, requestVars, idVars>>
\* Thread t calls serialize(&self, serializer) on the shared tree.
Serialize(t) ==
    /\ encoder[t].pc = "idle"
    /\ SharedTree.some
    /\ encoder' = [encoder EXCEPT ![t] =
          [pc |-> "encoding", self |-> SharedTree, out |-> None, calls |-> 1]]
    /\ serializer' = [serializer EXCEPT ![SerializerOf(t)] =
          serialize_child(@, SharedTree.val)]
    /\ overlapped' = (overlapped \/ OtherEncoding(t))
    /\ UNCHANGED <<callerVars, namespaceVars, requestVars, idVars>>
\* seq.serialize_element(x)? for an x that is written in one call.
SerializeElement(t) ==
    /\ encoder[t].pc = "encoding"
    /\ serializer[SerializerOf(t)] # <<>>
    /\ LET stack == serializer[SerializerOf(t)]
           top == stack[1]
       IN  /\ Len(top.seq) < Len(top.elements)
           /\ top.elements[Len(top.seq) + 1].is = "scalar"
           /\ serializer' = [serializer EXCEPT ![SerializerOf(t)] =
                 [stack EXCEPT ![1].seq =
                     serialize_element(@,
                         top.elements[Len(top.seq) + 1].json)]]
    /\ encoder' = [encoder EXCEPT ![t].calls = @ + 1]
    /\ overlapped' = (overlapped \/ OtherEncoding(t))
    /\ UNCHANGED <<callerVars, namespaceVars, requestVars, idVars>>
\* seq.serialize_element(x)? for an x that is a Filter, a RankBy or a Vec of
\* them: the nested call of serialize begins.
SerializeChild(t) ==
    /\ encoder[t].pc = "encoding"
    /\ serializer[SerializerOf(t)] # <<>>
    /\ LET stack == serializer[SerializerOf(t)]
           top == stack[1]
       IN  /\ Len(top.seq) < Len(top.elements)
           /\ top.elements[Len(top.seq) + 1].is # "scalar"
           /\ serializer' = [serializer EXCEPT ![SerializerOf(t)] =
                 serialize_child(stack, top.elements[Len(top.seq) + 1])]
    /\ encoder' = [encoder EXCEPT ![t].calls = @ + 1]
    /\ overlapped' = (overlapped \/ OtherEncoding(t))
    /\ UNCHANGED <<callerVars, namespaceVars, requestVars, idVars>>
\* seq.end(): the finished sequence becomes an element of the caller's
\* sequence, or, for the outermost call, the output of serialize.
End(t) ==
    /\ encoder[t].pc = "encoding"
    /\ serializer[SerializerOf(t)] # <<>>
    /\ LET stack == serializer[SerializerOf(t)]
           top == stack[1]
           rest == Tail(stack)
       IN  /\ Len(top.seq) = Len(top.elements)
           /\ IF rest = <<>>
              THEN /\ serializer' =
                        [serializer EXCEPT ![SerializerOf(t)] = <<>>]
                   /\ encoder' = [encoder EXCEPT
                        ![t].pc = "done",
                        ![t].out = Some(seq_end(top.seq)),
                        ![t].calls = @ + 1]
              ELSE /\ serializer' = [serializer EXCEPT ![SerializerOf(t)] =
                        [rest EXCEPT ![1].seq =
                            serialize_element(@, seq_end(top.seq))]]
                   /\ encoder' = [encoder EXCEPT ![t].calls = @ + 1]
    /\ overlapped' = (overlapped \/ OtherEncoding(t))
    /\ UNCHANGED <<callerVars, namespaceVars, requestVars, idVars>>

NextEncode ==
    \/ ShareFilter
    \/ ShareRank
    \/ \E t \in Threads : Serialize(t)
    \/ \E t \in Threads : SerializeElement(t)
    \/ \E t \in Threads : SerializeChild(t)
    \/ \E t \in Threads : End(t)

SpecEncode == Init /\ [][NextEncode]_vars

(***************************************************************************)
(* The parameter structs of a request (src/src/params.rs): QueryParams and *)
(* WriteParams, all of whose fields are Options skipped by the derived     *)
(* Serialize when None, and the body `.json(body)` makes of them.          *)
(***************************************************************************)
\* Bound: the most fields a caller sets in one params struct.
MaxFields == 3

\* The fields in declaration order.
QueryFields ==
    <<"rank_by", "top_k", "filters", "include_attributes",
      "exclude_attributes", "vector_encoding", "distance_metric",
      "consistency", "aggregate_by", "group_by">>
WriteFields ==
    <<"upsert_rows", "upsert_columns", "patch_rows", "patch_columns",
      "deletes", "delete_by_filter", "patch_by_filter", "upsert_condition",
      "patch_condition", "delete_condition", "distance_metric", "schema",
      "delete_by_filter_allow_partial", "patch_by_filter_allow_partial",
      "disable_backpressure", "return_affected_ids", "copy_from_namespace">>
FieldsOf(struct) == IF struct = "QueryParams" THEN QueryFields ELSE WriteFields
FieldNames(struct) == {FieldsOf(struct)[i] : i \in 1..Len(FieldsOf(struct))}

\* A field value, with its Rust type.
Typed(ty, v) == [ty |-> ty, v |-> v]
\* A HashMap is held as its entries <<key, value>> in iteration order.
RowOne == <<<<"id", JInt(1)>>>>
ColumnsOne == <<<<"id", <<JInt(1), JInt(2)>>>>>>
\* The values a caller sets a field to, as a list.
FieldValues(field) ==
    CASE field = "rank_by" ->
            <<Typed("RankBy", RankBy_bm25("text", "walrus whisker")),
              Typed("RankBy", RankBy_asc("name"))>>
      [] field \in {"filters", "delete_by_filter", "upsert_condition",
                    "patch_condition", "delete_condition"} ->
            <<Typed("Filter", Filter_eq("name", JStr("foo"))),
              Typed("Filter", Filter_and(<<>>))>>
      [] field = "top_k" -> <<Typed("u64", 10)>>
      [] field = "include_attributes" ->
            <<Typed("IncludeAttributes::All", TRUE),
              Typed("IncludeAttributes::List", <<"name">>)>>
      [] field \in {"exclude_attributes", "group_by"} ->
            <<Typed("Vec<String>", <<"name", "age">>)>>
      [] field = "vector_encoding" ->
            <<Typed("VectorEncoding", "Float")>>
      [] field = "distance_metric" ->
            <<Typed("DistanceMetric", "CosineDistance")>>
      [] field = "consistency" ->
            <<Typed("Consistency", "Strong"), Typed("Consistency", "Eventual")>>
      [] field = "aggregate_by" ->
            <<Typed("HashMap<String, AggregateBy>",
                   <<<<"count", Typed("AggregateBy::Count", <<>>)>>>>),
              Typed("HashMap<String, AggregateBy>",
                   <<<<"total", Typed("AggregateBy::Sum", "age")>>>>)>>
      [] field \in {"upsert_rows", "patch_rows"} ->
            <<Typed("Vec<HashMap<String, Value>>", <<RowOne>>)>>
      [] field \in {"upsert_columns", "patch_columns"} ->
            <<Typed("HashMap<String, Vec<Value>>", ColumnsOne)>>
      [] field = "deletes" -> <<Typed("Vec<Value>", <<JInt(1), JStr("a")>>)>>
      [] field = "patch_by_filter" ->
            <<Typed("PatchByFilter",
                   [filters |-> Filter_eq("name", JStr("foo")),
                    patch |-> RowOne])>>
      [] field = "schema" -> <<Typed("HashMap<String, Value>", RowOne)>>
      [] field \in {"delete_by_filter_allow_partial",
                    "patch_by_filter_allow_partial", "disable_backpressure",
                    "return_affected_ids"} ->
            <<Typed("bool", TRUE), Typed("bool", FALSE)>>
      [] field = "copy_from_namespace" -> <<Typed("String", "docs")>>

\* HashMap<String, Value>: an object of its entries.
HashMap_serialize(entries) ==
    JMap([i \in 1..Len(entries) |->
            [k |-> entries[i][1], e |-> serialize_value(entries[i][2])]])
\* impl Serialize for AggregateBy
AggregateBy_serialize(a) ==
    IF a.ty = "AggregateBy::Count"
    THEN LET s0 == serialize_seq
             s1 == serialize_element(s0, serialize_str("Count"))
         IN  seq_end(s1)
    ELSE LET s0 == serialize_seq
             s1 == serialize_element(s0, serialize_str("Sum"))
             s2 == serialize_element(s1, serialize_str(a.v))
         IN  seq_end(s2)
\* #[serde(rename_all = "snake_case")] on the unit variants
ConsistencyLevel_serialize(level) ==
    CASE level = "Strong" -> JStr("strong")
      [] level = "Eventual" -> JStr("eventual")
\* What serde writes for a field value of each type.  DistanceMetric and
\* VectorEncoding are defined outside src/: their encoding is kept opaque.
Typed_serialize(x) ==
    CASE x.ty = "RankBy" -> RankBy_serialize(x.v)
      [] x.ty = "Filter" -> Filter_serialize(x.v)
      [] x.ty = "u64" -> JInt(x.v)
      [] x.ty = "bool" -> JBool(x.v)
      [] x.ty = "String" -> serialize_str(x.v)
      [] x.ty = "IncludeAttributes::All" -> JBool(x.v)
      [] x.ty \in {"Vec<String>", "IncludeAttributes::List"} ->
            serialize_vec([i \in 1..Len(x.v) |-> serialize_str(x.v[i])])
      [] x.ty = "Vec<Value>" -> serialize_vec(x.v)
      [] x.ty = "HashMap<String, Value>" -> HashMap_serialize(x.v)
      [] x.ty = "Vec<HashMap<String, Value>>" ->
            serialize_vec([i \in 1..Len(x.v) |-> HashMap_serialize(x.v[i])])
      [] x.ty = "HashMap<String, Vec<Value>>" ->
            JMap([i \in 1..Len(x.v) |->
                    [k |-> x.v[i][1], e |-> serialize_vec(x.v[i][2])]])
      [] x.ty = "HashMap<String, AggregateBy>" ->
            JMap([i \in 1..Len(x.v) |->
                    [k |-> x.v[i][1], e |-> AggregateBy_serialize(x.v[i][2])]])
      [] x.ty = "Consistency" ->
            JMap(<<[k |-> "level", e |-> ConsistencyLevel_serialize(x.v)]>>)
      [] x.ty = "PatchByFilter" ->
            JMap(<<[k |-> "filters", e |-> Filter_serialize(x.v.filters)],
                   [k |-> "patch", e |-> HashMap_serialize(x.v.patch)]>>)
      [] x.ty \in {"DistanceMetric", "VectorEncoding"} ->
            [t |-> "opaque", v |-> x.v]

\* QueryParams::default() / WriteParams::default(): every field None.
Params_default(struct) ==
    [struct |-> struct, fields |-> [f \in FieldNames(struct) |-> None]]
\* The number of fields that are set.
FieldsSet(p) == Cardinality({f \in DOMAIN p.fields : p.fields[f].some})

\* skip_serializing_if dropped from the fields.
skip_serializing_if_Never(opt) == FALSE
\* #[serde(skip_serializing_if = "Option::is_none")]
skip_serializing_if(opt) == ~opt.some
\* serde's impl Serialize for Option<T>: None is written as null.
Option_serialize(opt) == IF opt.some THEN Typed_serialize(opt.val) ELSE JNull
\* #[derive(Serialize)] on the struct: an object with one entry per field
\* that is not skipped, in declaration order (from the i-th field on).
RECURSIVE Struct_entries(_, _, _)
Struct_entries(names, fields, i) ==
    IF i > Len(names) THEN <<>>
    ELSE (IF skip_serializing_if(fields[names[i]]) THEN <<>>
          ELSE <<[k |-> names[i], e |-> Option_serialize(fields[names[i]])]>>)
         \o Struct_entries(names, fields, i + 1)
Params_serialize(p) == JMap(Struct_entries(FieldsOf(p.struct), p.fields, 1))

\* let params = QueryParams { ..Default::default() }
NewQueryParams ==
    /\ requestParams = None
    /\ requestParams' = Some(Params_default("QueryParams"))
    /\ requestBody' = None
    /\ UNCHANGED <<responseBody, decoded>>
    /\ UNCHANGED <<callerVars, encodingVars, namespaceVars, idVars>>
\* let params = WriteParams { ..Default::default() }
NewWriteParams ==
    /\ requestParams = None
    /\ requestParams' = Some(Params_default("WriteParams"))
    /\ requestBody' = None
    /\ UNCHANGED <<responseBody, decoded>>
    /\ UNCHANGED <<callerVars, encodingVars, namespaceVars, idVars>>
\* One more field of the struct literal is given a value.
SetField ==
    /\ requestParams.some
    /\ FieldsSet(requestParams.val) < MaxFields
    /\ \E f \in DOMAIN requestParams.val.fields :
        /\ ~requestParams.val.fields[f].some
        /\ \E i \in 1..Len(FieldValues(f)) :
            requestParams' =
                Some([requestParams.val
                        EXCEPT !.fields[f] = Some(FieldValues(f)[i])])
    /\ requestBody' = None
    /\ UNCHANGED <<responseBody, decoded>>
    /\ UNCHANGED <<callerVars, encodingVars, namespaceVars, idVars>>
\* req.json(body): the params struct is serialized into the request body.
SerializeParams ==
    /\ requestParams.some
    /\ requestBody' = Some(Params_serialize(requestParams.val))
    /\ UNCHANGED <<requestParams, responseBody, decoded>>
    /\ UNCHANGED <<callerVars, encodingVars, namespaceVars, idVars>>

NextRequest ==
    \/ NewQueryParams
    \/ NewWriteParams
    \/ SetField
    \/ SerializeParams

SpecRequest == Init /\ [][NextRequest]_vars

(***************************************************************************)
(* The response structs (src/src/responses.rs) and what their derived      *)
(* Deserialize makes of a JSON body.                                       *)
(***************************************************************************)
\* The types of the fields: a named type, Option<T>, Vec<T>,
\* HashMap<String, T>, or one of the structs.
Prim(name) == [c |-> name, of |-> <<>>]
OptionOf(ty) == [c |-> "Option", of |-> ty]
VecOf(ty) == [c |-> "Vec", of |-> ty]
HashMapOf(ty) == [c |-> "HashMap", of |-> ty]
StructOf(name) == [c |-> "struct", of |-> name]
\* A field of a struct; default: whether it carries #[serde(default)].
Field(name, ty, default) == [name |-> name, ty |-> ty, default |-> default]
OptionField(name, ty) == Field(name, OptionOf(ty), TRUE)

\* The fields of each struct, in declaration order.
StructFields(struct) ==
    CASE struct = "WriteResponse" ->
            <<Field("rows_affected", Prim("u64"), FALSE),
              OptionField("rows_upserted", Prim("u64")),
              OptionField("rows_patched", Prim("u64")),
              OptionField("rows_deleted", Prim("u64")),
              OptionField("rows_remaining", Prim("bool")),
              OptionField("upserted_ids", VecOf(Prim("Value"))),
              OptionField("patched_ids", VecOf(Prim("Value"))),
              OptionField("deleted_ids", VecOf(Prim("Value"))),
              OptionField("billing", StructOf("WriteBilling"))>>
      [] struct = "WriteBilling" ->
            <<Field("billable_logical_bytes_written", Prim("u64"), FALSE),
              OptionField("query", StructOf("QueryBillingInfo"))>>
      [] struct \in {"QueryBillingInfo", "QueryBilling"} ->
            <<Field("billable_logical_bytes_queried", Prim("u64"), FALSE),
              Field("billable_logical_bytes_returned", Prim("u64"), FALSE)>>
      [] struct = "QueryResponse" ->
            <<Field("rows", VecOf(Prim("Row")), TRUE),
              OptionField("aggregations", HashMapOf(Prim("Value"))),
              OptionField("aggregation_groups",
                          VecOf(HashMapOf(Prim("Value")))),
              OptionField("billing", StructOf("QueryBilling")),
              OptionField("performance", StructOf("QueryPerformance"))>>
      [] struct = "QueryPerformance" ->
            <<OptionField("cache_hit_ratio", Prim("f64")),
              OptionField("cache_temperature", Prim("String")),
              OptionField("server_total_ms", Prim("u64")),
              OptionField("query_execution_ms", Prim("u64")),
              OptionField("exhaustive_search_count", Prim("u64")),
              OptionField("approx_namespace_size", Prim("u64"))>>
      [] struct = "MultiQueryResponse" ->
            <<Field("results", VecOf(StructOf("QueryResponse")), FALSE)>>
      [] struct = "DeleteAllResponse" ->
            <<Field("status", Prim("String"), FALSE)>>
      [] struct = "NamespaceMetadata" ->
            <<OptionField("created_at", Prim("String")),
              OptionField("updated_at", Prim("String")),
              OptionField("approx_logical_bytes", Prim("u64")),
              OptionField("approx_row_count", Prim("u64")),
              OptionField("encryption", StructOf("NamespaceEncryption")),
              OptionField("index", StructOf("NamespaceIndex")),
              OptionField("schema", HashMapOf(Prim("Value")))>>
      [] struct = "NamespaceEncryption" ->
            <<OptionField("sse", Prim("bool")),
              OptionField("cmek", Prim("Value"))>>
      [] struct = "NamespaceIndex" ->
            <<OptionField("status", Prim("String"))>>
      [] struct = "HintCacheWarmResponse" ->
            <<Field("status", Prim("String"), FALSE),
              OptionField("message", Prim("String"))>>
\* The type a response body is decoded as: a struct, or for SchemaResponse
\* (a newtype) the map it wraps.
ResponseType(name) ==
    IF name = "SchemaResponse" THEN HashMapOf(Prim("Value"))
    ELSE StructOf(name)

\* Row: a generic attribute map, read from a JSON object.
Row_deserialize(json) ==
    IF json.t = "map" THEN Ok(json.v) ELSE Err("invalid type")
\* Default::default() of a field's type: None, or the empty Vec.
Default(ty) == IF ty.c = "Option" THEN None ELSE <<>>
\* A field is treated as if it had no default.
MissingField_Required(field) == Err("missing field")
\* The value of a field the object does not hold: its default when it has
\* #[serde(default)] or is an Option, else the missing-field error.
MissingField(field) ==
    IF field.default \/ field.ty.c = "Option"
    THEN Ok(Default(field.ty))
    ELSE Err("missing field")
\* The number of entries of an object under the key.
KeyCount(json, key) == Cardinality({i \in 1..Len(json.v) : json.v[i].k = key})

\* Deserialize for a value of the type, and the derived Deserialize of a
\* struct: from an object by key (unknown keys are skipped, a key twice is
\* an error), from an array by position.
RECURSIVE Deserialize(_, _), Struct_field(_, _, _, _), Struct_deserialize(_, _)
Deserialize(ty, json) ==
    CASE ty.c = "u64" ->
            IF json.t = "int" /\ json.v >= 0 THEN Ok(json.v)
            ELSE Err("invalid type")
      [] ty.c = "bool" ->
            IF json.t = "bool" THEN Ok(json.v) ELSE Err("invalid type")
      [] ty.c = "String" ->
            IF json.t = "str" THEN Ok(json.v) ELSE Err("invalid type")
      [] ty.c = "f64" ->
            IF json.t \in {"int", "float"} THEN Ok(json.v)
            ELSE Err("invalid type")
      [] ty.c = "Value" -> Ok(json)
      [] ty.c = "Row" -> Row_deserialize(json)
      [] ty.c = "Option" ->
            IF json.t = "null" THEN Ok(None)
            ELSE IF Deserialize(ty.of, json).ok
            THEN Ok(Some(Deserialize(ty.of, json).val))
            ELSE Deserialize(ty.of, json)
      [] ty.c = "Vec" ->
            IF json.t # "arr" THEN Err("invalid type")
            ELSE IF \A i \in 1..Len(json.v) : Deserialize(ty.of, json.v[i]).ok
            THEN Ok([i \in 1..Len(json.v) |->
                        Deserialize(ty.of, json.v[i]).val])
            ELSE Err("invalid type")
      [] ty.c = "HashMap" ->
            IF json.t # "map" THEN Err("invalid type")
            ELSE IF \A i \in 1..Len(json.v) :
                        Deserialize(ty.of, json.v[i].e).ok
            THEN Ok([i \in 1..Len(json.v) |->
                        <<json.v[i].k, Deserialize(ty.of, json.v[i].e).val>>])
            ELSE Err("invalid type")
      [] ty.c = "struct" -> Struct_deserialize(StructFields(ty.of), json)
\* The i-th field.
Struct_field(fields, json, i, field) ==
    IF json.t = "map"
    THEN IF KeyCount(json, field.name) > 1 THEN Err("duplicate field")
         ELSE IF MapGet(json, field.name).some
         THEN Deserialize(field.ty, MapGet(json, field.name).val)
         ELSE MissingField(field)
    ELSE IF i <= Len(json.v) THEN Deserialize(field.ty, json.v[i])
    ELSE IF field.default THEN Ok(Default(field.ty))
    ELSE Err("invalid length")
Struct_deserialize(fields, json) ==
    IF json.t \notin {"map", "arr"} THEN Err("invalid type")
    ELSE IF \A i \in 1..Len(fields) :
                Struct_field(fields, json, i, fields[i]).ok
    THEN Ok([name \in {fields[i].name : i \in 1..Len(fields)} |->
                Struct_field(fields, json,
                             CHOOSE i \in 1..Len(fields) :
                                fields[i].name = name,
                             fields[CHOOSE i \in 1..Len(fields) :
                                        fields[i].name = name]).val])
    ELSE Err("invalid struct")

\* The entry of an object for a key that may be absent.
Entry(key, value) ==
    IF value.some THEN <<[k |-> key, e |-> value.val]>> ELSE <<>>
\* The bodies a write is answered with: each key absent, or present with a
\* value of the field's type or of another.
WritePayloads ==
    {JMap(Entry("rows_affected", affected) \o Entry("rows_upserted", upserted)
          \o Entry("rows_remaining", remaining) \o Entry("upserted_ids", ids)
          \o Entry("billing", billing)) :
        affected \in {None, Some(JInt(5)), Some(JInt(0)), Some(JNull),
                      Some(JStr("5")), Some(JInt(-1))},
        upserted \in {None, Some(JInt(5)), Some(JNull)},
        remaining \in {None, Some(JBool(TRUE))},
        ids \in {None, Some(JArr(<<JInt(1), JStr("a")>>))},
        billing \in {None, Some(JMap(<<>>)),
                     Some(JMap(<<[k |-> "billable_logical_bytes_written",
                                  e |-> JInt(1024)]>>))}}
    \cup {JNull, JStr("ok"), JArr(<<JInt(5)>>), JArr(<<>>)}
\* The row objects of a query answer, and an element that is no object.
RowObjects ==
    {JMap(<<[k |-> "id", e |-> JInt(1)], [k |-> "name", e |-> JStr("alice")]>>),
     JMap(<<[k |-> "id", e |-> JInt(2)], [k |-> "name", e |-> JStr("bob")]>>)}
\* The bodies a query is answered with.
QueryPayloads ==
    {JMap(Entry("rows", rows) \o Entry("aggregations", aggregations)
          \o Entry("performance", performance) \o Entry("billing", billing)) :
        rows \in {None, Some(JNull)}
                 \cup {Some(JArr(s)) :
                        s \in SeqsUpTo(RowObjects \cup {JInt(5)}, MaxLen)},
        aggregations \in {None,
                          Some(JMap(<<[k |-> "count", e |-> JInt(42)]>>))},
        performance \in {None, Some(JMap(<<>>)), Some(JStr("hot"))},
        billing \in {None, Some(JMap(<<>>))}}

\* resp.json::<WriteResponse>() on a body received
DecodeWrite ==
    /\ \E body \in WritePayloads :
        /\ responseBody' = Some(body)
        /\ decoded' = Some([struct |-> "WriteResponse",
                            result |-> Deserialize(StructOf("WriteResponse"),
                                                   body)])
    /\ UNCHANGED <<requestParams, requestBody>>
    /\ UNCHANGED <<callerVars, encodingVars, namespaceVars, idVars>>
\* resp.json::<QueryResponse>() on a body received
DecodeQuery ==
    /\ \E body \in QueryPayloads :
        /\ responseBody' = Some(body)
        /\ decoded' = Some([struct |-> "QueryResponse",
                            result |-> Deserialize(StructOf("QueryResponse"),
                                                   body)])
    /\ UNCHANGED <<requestParams, requestBody>>
    /\ UNCHANGED <<callerVars, encodingVars, namespaceVars, idVars>>

NextResponse ==
    \/ DecodeWrite
    \/ DecodeQuery

SpecResponse == Init /\ [][NextResponse]_vars

(***************************************************************************)
(* A namespace handle and the requests it makes (src/src/namespace.rs,     *)
(* src/src/client.rs), against a server that creates a namespace on a      *)
(* write, removes it on delete_all and answers 404 for one it does not     *)
(* hold.  A call may also be hit by a fault of the transport or server.    *)
(***************************************************************************)
\* Error::Api { status, message }
Api(status, message) == [type |-> "Api", status |-> status, message |-> message]
\* Error::Http(reqwest::Error): the request was not answered, or the answer
\* could not be decoded.
Http(source) == [type |-> "Http", source |-> source]
\* Error::Json(serde_json::Error)
Json(source) == [type |-> "Json", source |-> source]

\* const DEFAULT_BASE_URL
DEFAULT_BASE_URL == "https://api.turbopuffer.com"
\* struct Client (its reqwest::Client left out)
Client(api_key, base_url) == [api_key |-> api_key, base_url |-> base_url]
\* Client::new
Client_new(api_key) == Client(api_key, DEFAULT_BASE_URL)
\* Client::with_region
Client_with_region(api_key, region) ==
    Client(api_key, "https://" \o region \o ".turbopuffer.com")
\* Client::with_base_url
Client_with_base_url(api_key, base_url) == Client(api_key, base_url)

\* An environment variable: unset, set to a string, or set to bytes that
\* are not valid Unicode.
Unset == [state |-> "unset", val |-> ""]
SetTo(s) == [state |-> "set", val |-> s]
SetToNonUnicode == [state |-> "not_unicode", val |-> ""]
\* std::env::var
env_var(variable) ==
    CASE variable.state = "set" -> Ok(variable.val)
      [] variable.state = "unset" -> Err("NotPresent")
      [] variable.state = "not_unicode" -> Err("NotUnicode")
\* Client::from_env, in an environment holding the two variables
Client_from_env(env) ==
    IF ~env_var(env.TURBOPUFFER_API_KEY).ok
    THEN Err(Api(0, "TURBOPUFFER_API_KEY not set"))
    ELSE Ok(Client(env_var(env.TURBOPUFFER_API_KEY).val,
                   IF env_var(env.TURBOPUFFER_REGION).ok
                   THEN "https://" \o env_var(env.TURBOPUFFER_REGION).val
                            \o ".turbopuffer.com"
                   ELSE DEFAULT_BASE_URL))

\* format!("/v1/namespaces/{}{}", self.name, suffix), on the v2 prefix.
Namespace_v1_path_V2(name, suffix) == "/v2/namespaces/" \o name \o suffix
\* format!("/v1/namespaces/{}{}", self.name, suffix)
Namespace_v1_path(name, suffix) == "/v1/namespaces/" \o name \o suffix
\* format!("/v2/namespaces/{}{}", self.name, suffix)
Namespace_v2_path(name, suffix) == "/v2/namespaces/" \o name \o suffix

\* What Client::request sends: method, path and the optional JSON body.
Request(method, path, body) == [method |-> method, path |-> path, body |-> body]
\* The request as sent when the key is put in the header without its scheme.
Client_http_KeyWithoutScheme(self, req) ==
    [method |-> req.method,
     url |-> self.base_url \o req.path,
     Authorization |-> self.api_key,
     ContentType |-> "application/json",
     body |-> req.body]
\* The HTTP request Client::request builds of them for the client: the URL,
\* the two headers and the body, if one was given.
Client_http(self, req) ==
    [method |-> req.method,
     url |-> self.base_url \o req.path,
     Authorization |-> "Bearer " \o self.api_key,
     ContentType |-> "application/json",
     body |-> req.body]
\* What comes back: the status and the body.
Response(status, body) == [status |-> status, body |-> body]
\* A body that is not JSON.
Text(s) == [t |-> "text", v |-> s]
\* A body that cannot be read (the connection breaks while it arrives).
UnreadableBody == [t |-> "unreadable", v |-> <<>>]
\* The elements of a list of texts, separated by commas (from the i-th on).
RECURSIVE Joined(_, _)
Joined(texts, i) ==
    IF i > Len(texts) THEN ""
    ELSE IF i = Len(texts) THEN texts[i]
    ELSE texts[i] \o "," \o Joined(texts, i + 1)
\* The text of a JSON body.
RECURSIVE Json_text(_)
Json_text(json) ==
    CASE json.t = "null" -> "null"
      [] json.t = "bool" -> IF json.v THEN "true" ELSE "false"
      [] json.t = "int" -> ToString(json.v)
      [] json.t = "str" -> "\"" \o json.v \o "\""
      [] json.t = "arr" ->
            "[" \o Joined([i \in 1..Len(json.v) |-> Json_text(json.v[i])], 1)
                \o "]"
      [] json.t = "map" ->
            "{" \o Joined([i \in 1..Len(json.v) |->
                            "\"" \o json.v[i].k \o "\":"
                                \o Json_text(json.v[i].e)], 1)
                \o "}"
\* resp.text().await: the body as text, or an error when it cannot be read.
Response_text(body) ==
    CASE body.t = "unreadable" -> Err(Http("body"))
      [] body.t = "text" -> Ok(body.v)
      [] OTHER -> Ok(Json_text(body))
\* Result<String>::unwrap_or_default
unwrap_or_default(result) == IF result.ok THEN result.val ELSE ""

\* The request of Namespace::write
Namespace_write(name, params) ==
    Request("POST", Namespace_v2_path(name, ""), Some(Params_serialize(params)))
\* #[derive(Serialize)] struct MultiQueryParams: `queries` is always
\* written, the two Options only when set.
MultiQueryParams_serialize(p) ==
    JMap(<<[k |-> "queries",
            e |-> serialize_vec([i \in 1..Len(p.queries) |->
                                    Params_serialize(p.queries[i])])]>>
         \o Struct_entries(<<"vector_encoding", "consistency">>, p.fields, 1))
\* The request of Namespace::query
Namespace_query(name, params) ==
    Request("POST", Namespace_v2_path(name, "/query"),
            Some(Params_serialize(params)))
\* The request of Namespace::multi_query
Namespace_multi_query(name, params) ==
    Request("POST", Namespace_v2_path(name, "/query"),
            Some(MultiQueryParams_serialize(params)))
\* Client::request_no_body
Client_request_no_body(method, path) == Request(method, path, None)
\* The request of Namespace::delete_all, sent without its method's path.
Namespace_delete_all_OnQueryPath(name) ==
    Client_request_no_body("DELETE", Namespace_v2_path(name, "/query"))
\* The request of Namespace::delete_all
Namespace_delete_all(name) ==
    Client_request_no_body("DELETE", Namespace_v2_path(name, ""))
\* The request of Namespace::metadata
Namespace_metadata(name) ==
    Client_request_no_body("GET", Namespace_v1_path(name, "/metadata"))
\* The request of Namespace::schema
Namespace_schema(name) ==
    Client_request_no_body("GET", Namespace_v1_path(name, "/schema"))
\* The request of Namespace::hint_cache_warm
Namespace_hint_cache_warm(name) ==
    Client_request_no_body("GET", Namespace_v1_path(name, "/hint_cache_warm"))

\* The server: the namespaces it holds are `held`; the answer to a request
\* and the namespaces held afterwards.
Server_handle(held, req) ==
    IF \E n \in Names :
          req.method = "POST" /\ req.path = "/v2/namespaces/" \o n
    THEN LET n == CHOOSE n \in Names : req.path = "/v2/namespaces/" \o n
         IN  [server |-> held \cup {n},
              response |->
                Response(200, JMap(<<[k |-> "rows_affected", e |-> JInt(1)]>>))]
    ELSE IF \E n \in held :
          req.method = "DELETE" /\ req.path = "/v2/namespaces/" \o n
    THEN LET n == CHOOSE n \in held : req.path = "/v2/namespaces/" \o n
         IN  [server |-> held \ {n},
              response |->
                Response(200, JMap(<<[k |-> "status", e |-> JStr("OK")]>>))]
    ELSE IF \E n \in held :
          req.method = "GET"
          /\ req.path = "/v1/namespaces/" \o n \o "/metadata"
    THEN [server |-> held,
          response |->
            Response(200, JMap(<<[k |-> "approx_row_count", e |-> JInt(1)]>>))]
    ELSE IF \E n \in held :
          req.method = "POST" /\ req.path = "/v2/namespaces/" \o n \o "/query"
    THEN [server |-> held,
          response |->
            IF req.body.some /\ MapGet(req.body.val, "queries").some
            THEN Response(200,
                    JMap(<<[k |-> "results",
                            e |-> JArr([i \in 1..Len(MapGet(req.body.val,
                                                        "queries").val.v) |->
                                          JMap(<<[k |-> "rows",
                                                  e |-> JArr(<<>>)]>>)])]>>))
            ELSE Response(200,
                    JMap(<<[k |-> "rows",
                            e |-> JArr(<<JMap(<<[k |-> "id",
                                                 e |-> JInt(1)]>>)>>)]>>))]
    ELSE IF \E n \in held :
          req.method = "GET" /\ req.path = "/v1/namespaces/" \o n \o "/schema"
    THEN [server |-> held,
          response |->
            Response(200, JMap(<<[k |-> "id", e |-> JStr("uint")]>>))]
    ELSE IF \E n \in held :
          req.method = "GET"
          /\ req.path = "/v1/namespaces/" \o n \o "/hint_cache_warm"
    THEN [server |-> held,
          response |->
            Response(200, JMap(<<[k |-> "status", e |-> JStr("ACCEPTED")]>>))]
    ELSE [server |-> held,
          response |-> Response(404, Text("namespace not found"))]

\* What can go wrong with one call: nothing; the server is not reached; it
\* answers with an error status without acting, with a text, with a JSON
\* object that every response struct accepts, or with an unreadable body;
\* its answer arrives garbled.
Fault(kind, status) == [kind |-> kind, status |-> status]
Faults ==
    {Fault("none", 0), Fault("unreachable", 0), Fault("garbled", 0),
     Fault("status", 401), Fault("status", 404),
     Fault("status", 500), Fault("status_json", 422),
     Fault("status_unreadable", 503)}
\* The JSON object of an error answer.
ErrorJson ==
    JMap(<<[k |-> "status", e |-> JStr("error")],
           [k |-> "rows_affected", e |-> JInt(0)],
           [k |-> "results", e |-> JArr(<<>>)]>>)
\* req.send(): the namespaces held afterwards and the response, if any.
Send(held, req, fault) ==
    CASE fault.kind = "unreachable" -> [server |-> held, outcome |-> None]
      [] fault.kind = "status" ->
            [server |-> held,
             outcome |-> Some(Response(fault.status, Text("error")))]
      [] fault.kind = "status_json" ->
            [server |-> held,
             outcome |-> Some(Response(fault.status, ErrorJson))]
      [] fault.kind = "status_unreadable" ->
            [server |-> held,
             outcome |-> Some(Response(fault.status, UnreadableBody))]
      [] fault.kind = "garbled" ->
            [server |-> Server_handle(held, req).server,
             outcome |->
                Some(Response(Server_handle(held, req).response.status,
                              Text("<html>")))]
      [] fault.kind = "none" ->
            [server |-> Server_handle(held, req).server,
             outcome |-> Some(Server_handle(held, req).response)]

\* StatusCode::is_success
is_success(status) == status \in 200..299
\* A body that cannot be decoded reported as a serde_json error.
Response_json_AsJsonError(ty, body) ==
    IF body.t \in {"text", "unreadable"} THEN Err(Json("decode"))
    ELSE IF Deserialize(ResponseType(ty), body).ok
    THEN Deserialize(ResponseType(ty), body)
    ELSE Err(Json("decode"))
\* resp.json::<R>(): the body decoded as the response type; a body that is
\* not JSON, or not of the type, is a reqwest error.
Response_json(ty, body) ==
    IF body.t \in {"text", "unreadable"} THEN Err(Http("decode"))
    ELSE IF Deserialize(ResponseType(ty), body).ok
    THEN Deserialize(ResponseType(ty), body)
    ELSE Err(Http("decode"))
\* The body decoded before the status is looked at.
Client_request_DecodeFirst(outcome, ty) ==
    IF ~outcome.some THEN Err(Http("send"))
    ELSE IF Response_json(ty, outcome.val.body).ok
    THEN Response_json(ty, outcome.val.body)
    ELSE IF ~is_success(outcome.val.status)
    THEN Err(Api(outcome.val.status,
                 unwrap_or_default(Response_text(outcome.val.body))))
    ELSE Response_json(ty, outcome.val.body)
\* Client::request from `req.send().await?` on: outcome is the response, or
\* None when no response came.
Client_request(outcome, ty) ==
    IF ~outcome.some THEN Err(Http("send"))
    ELSE IF ~is_success(outcome.val.status)
    THEN Err(Api(outcome.val.status,
                 unwrap_or_default(Response_text(outcome.val.body))))
    ELSE Response_json(ty, outcome.val.body)

\* Every API error read as absence.
Namespace_exists_AnyApiError(metadata) ==
    IF metadata.ok THEN Ok(TRUE)
    ELSE IF metadata.err.type = "Api" THEN Ok(FALSE)
    ELSE metadata
\* Namespace::exists, on the result of self.metadata().await
Namespace_exists(metadata) ==
    IF metadata.ok THEN Ok(TRUE)
    ELSE IF metadata.err.type = "Api" /\ metadata.err.status = 404
    THEN Ok(FALSE)
    ELSE metadata

\* The params a caller writes with.
WriteBodies ==
    <<Params_default("WriteParams"),
      [Params_default("WriteParams")
         EXCEPT !.fields["upsert_rows"] = Some(FieldValues("upsert_rows")[1])]>>

\* The params a caller queries with.
QueryBodies ==
    <<Params_default("QueryParams"),
      [Params_default("QueryParams")
         EXCEPT !.fields["rank_by"] = Some(FieldValues("rank_by")[1]),
                !.fields["filters"] = Some(FieldValues("filters")[1])]>>
MultiQueryBodies ==
    <<[struct |-> "MultiQueryParams", queries |-> QueryBodies,
       fields |-> [vector_encoding |-> None,
                   consistency |-> Some(FieldValues("consistency")[1])]]>>

\* The record of a finished call (the HTTP requests made, the response
\* received, if any, what Client::request made of it, and what the
\* operation returned), and of
\* the writes and deletes so far on a namespace: whether write was ever
\* called, and the last such call.
Call(op, name, fault, request, received, response, result) ==
    [op |-> op, name |-> name, fault |-> fault,
     requests |-> <<Client_http(client.val, request)>>,
     received |-> received, response |-> response, result |-> result]
Written(n) == history[n].some /\ history[n].val.written

\* The keys, regions and base URLs a client is constructed with.
ApiKeys == {"key-a", "key-b"}
Regions == {"gcp-us-central1"}
BaseUrls == {"http://localhost:8080"}
EnvValues(strings) == {Unset, SetToNonUnicode} \cup {SetTo(s) : s \in strings}

\* let client = Client::new(api_key)
New ==
    /\ constructed = None
    /\ \E k \in ApiKeys :
        /\ client' = Some(Client_new(k))
        /\ constructed' = Some([by |-> "new", api_key |-> k])
    /\ UNCHANGED <<server, call, history>>
    /\ UNCHANGED <<callerVars, encodingVars, requestVars, idVars>>
\* let client = Client::with_region(api_key, region)
WithRegion ==
    /\ constructed = None
    /\ \E k \in ApiKeys, r \in Regions :
        /\ client' = Some(Client_with_region(k, r))
        /\ constructed' =
              Some([by |-> "with_region", api_key |-> k, region |-> r])
    /\ UNCHANGED <<server, call, history>>
    /\ UNCHANGED <<callerVars, encodingVars, requestVars, idVars>>
\* let client = Client::with_base_url(api_key, base_url)
WithBaseUrl ==
    /\ constructed = None
    /\ \E k \in ApiKeys, u \in BaseUrls :
        /\ client' = Some(Client_with_base_url(k, u))
        /\ constructed' =
              Some([by |-> "with_base_url", api_key |-> k, base_url |-> u])
    /\ UNCHANGED <<server, call, history>>
    /\ UNCHANGED <<callerVars, encodingVars, requestVars, idVars>>
\* let client = Client::from_env()?
FromEnv ==
    /\ constructed = None
    /\ \E k \in EnvValues({"key-env"}), r \in EnvValues(Regions) :
        \E env \in {[TURBOPUFFER_API_KEY |-> k, TURBOPUFFER_REGION |-> r]} :
          /\ client' = IF Client_from_env(env).ok
                       THEN Some(Client_from_env(env).val)
                       ELSE None
          /\ constructed' = Some([by |-> "from_env", env |-> env,
                                  result |-> Client_from_env(env)])
    /\ UNCHANGED <<server, call, history>>
    /\ UNCHANGED <<callerVars, encodingVars, requestVars, idVars>>

\* ns.write(params).await
Write ==
    /\ client.some
    /\ call = None
    /\ \E n \in Names, fault \in Faults, i \in 1..Len(WriteBodies) :
        \E req \in {Namespace_write(n, WriteBodies[i])} :
          \E sent \in {Send(server, req, fault)} :
            \E result \in {Client_request(sent.outcome, "WriteResponse")} :
              /\ server' = sent.server
              /\ call' = Some(Call("write", n, fault, req, sent.outcome,
                                   result, result))
              /\ history' = [history EXCEPT ![n] =
                    Some([written |-> TRUE, last |-> "write",
                          ok |-> result.ok])]
    /\ UNCHANGED <<client, constructed>>
    /\ UNCHANGED <<callerVars, encodingVars, requestVars, idVars>>
\* ns.query(params).await
Query ==
    /\ client.some
    /\ call = None
    /\ \E n \in Names, fault \in Faults, i \in 1..Len(QueryBodies) :
        \E req \in {Namespace_query(n, QueryBodies[i])} :
          \E sent \in {Send(server, req, fault)} :
            \E result \in {Client_request(sent.outcome, "QueryResponse")} :
              /\ server' = sent.server
              /\ call' = Some(Call("query", n, fault, req, sent.outcome,
                                   result, result))
    /\ UNCHANGED <<history, client, constructed>>
    /\ UNCHANGED <<callerVars, encodingVars, requestVars, idVars>>
\* ns.multi_query(params).await
MultiQuery ==
    /\ client.some
    /\ call = None
    /\ \E n \in Names, fault \in Faults, i \in 1..Len(MultiQueryBodies) :
        \E req \in {Namespace_multi_query(n, MultiQueryBodies[i])} :
          \E sent \in {Send(server, req, fault)} :
            \E result \in
                    {Client_request(sent.outcome, "MultiQueryResponse")} :
              /\ server' = sent.server
              /\ call' = Some(Call("multi_query", n, fault, req,
                                   sent.outcome, result, result))
    /\ UNCHANGED <<history, client, constructed>>
    /\ UNCHANGED <<callerVars, encodingVars, requestVars, idVars>>
\* ns.metadata().await
Metadata ==
    /\ client.some
    /\ call = None
    /\ \E n \in Names, fault \in Faults :
        \E req \in {Namespace_metadata(n)} :
          \E sent \in {Send(server, req, fault)} :
            \E result \in
                    {Client_request(sent.outcome, "NamespaceMetadata")} :
              /\ server' = sent.server
              /\ call' = Some(Call("metadata", n, fault, req, sent.outcome,
                                   result, result))
    /\ UNCHANGED <<history, client, constructed>>
    /\ UNCHANGED <<callerVars, encodingVars, requestVars, idVars>>
\* ns.schema().await
Schema ==
    /\ client.some
    /\ call = None
    /\ \E n \in Names, fault \in Faults :
        \E req \in {Namespace_schema(n)} :
          \E sent \in {Send(server, req, fault)} :
            \E result \in {Client_request(sent.outcome, "SchemaResponse")} :
              /\ server' = sent.server
              /\ call' = Some(Call("schema", n, fault, req, sent.outcome,
                                   result, result))
    /\ UNCHANGED <<history, client, constructed>>
    /\ UNCHANGED <<callerVars, encodingVars, requestVars, idVars>>
\* ns.hint_cache_warm().await
HintCacheWarm ==
    /\ client.some
    /\ call = None
    /\ \E n \in Names, fault \in Faults :
        \E req \in {Namespace_hint_cache_warm(n)} :
          \E sent \in {Send(server, req, fault)} :
            \E result \in
                    {Client_request(sent.outcome, "HintCacheWarmResponse")} :
              /\ server' = sent.server
              /\ call' = Some(Call("hint_cache_warm", n, fault, req,
                                   sent.outcome, result, result))
    /\ UNCHANGED <<history, client, constructed>>
    /\ UNCHANGED <<callerVars, encodingVars, requestVars, idVars>>
\* ns.delete_all().await
DeleteAll ==
    /\ client.some
    /\ call = None
    /\ \E n \in Names, fault \in Faults :
        \E req \in {Namespace_delete_all(n)} :
          \E sent \in {Send(server, req, fault)} :
            \E result \in
                    {Client_request(sent.outcome, "DeleteAllResponse")} :
              /\ server' = sent.server
              /\ call' = Some(Call("delete_all", n, fault, req, sent.outcome,
                                   result, result))
              /\ history' = [history EXCEPT ![n] =
                    Some([written |-> Written(n), last |-> "delete_all",
                          ok |-> result.ok])]
    /\ UNCHANGED <<client, constructed>>
    /\ UNCHANGED <<callerVars, encodingVars, requestVars, idVars>>
\* ns.exists().await
Exists ==
    /\ client.some
    /\ call = None
    /\ \E n \in Names, fault \in Faults :
        \E req \in {Namespace_metadata(n)} :
          \E sent \in {Send(server, req, fault)} :
            \E metadata \in
                    {Client_request(sent.outcome, "NamespaceMetadata")} :
              /\ server' = sent.server
              /\ call' = Some(Call("exists", n, fault, req, sent.outcome,
                                   metadata, Namespace_exists(metadata)))
    /\ UNCHANGED <<history, client, constructed>>
    /\ UNCHANGED <<callerVars, encodingVars, requestVars, idVars>>

\* The caller has looked at the result of the call and lets go of it.
TakeResult ==
    /\ call.some
    /\ call' = None
    /\ UNCHANGED <<server, history, client, constructed>>
    /\ UNCHANGED <<callerVars, encodingVars, requestVars, idVars>>

NextNamespace ==
    \/ New
    \/ WithRegion
    \/ WithBaseUrl
    \/ FromEnv
    \/ Write
    \/ Query
    \/ MultiQuery
    \/ DeleteAll
    \/ Metadata
    \/ Schema
    \/ HintCacheWarm
    \/ Exists
    \/ TakeResult

SpecNamespace == Init /\ [][NextNamespace]_vars

(***************************************************************************)
(* Properties of the filter encoding (checked under SpecFilter).           *)
(***************************************************************************)
\* The third element a leaf filter's operand is encoded to.
FilterOperand(f) ==
    CASE f.kind \in ValueKinds -> f.value
      [] f.kind \in ValuesKinds -> JArr(f.values)
      [] f.kind \in PatternKinds -> JStr(f.pattern)
      [] f.kind \in {"ContainsAllTokens", "ContainsTokenSequence"} ->
            JStr(f.value)
\* A non-logical filter built without parameters.
WithoutParams(f) ==
    /\ f.kind \in NonLogicalKinds
    /\ f.kind = "ContainsAllTokens" => ~f.params.some
\* One parameterless leaf of each non-logical variant.
SampleLeaf(kind) ==
    CASE kind \in ValueKinds -> FilterValue(kind, "name", JStr("foo"))
      [] kind \in ValuesKinds -> FilterValues(kind, "name", <<JInt(1)>>)
      [] kind \in PatternKinds -> FilterPattern(kind, "name", "foo*")
      [] kind = "ContainsAllTokens" ->
            FilterContainsAllTokens("name", "foo*", None)
      [] kind = "ContainsTokenSequence" ->
            FilterContainsTokenSequence("name", "foo*")
FilterEncoded == filter.some /\ filterJson.some

\* C1: a non-logical filter built without parameters encodes as exactly the
\* 3-element array [attr, tag, operand], the tag being the variant's own name
\* (case-sensitive), and no other non-logical variant encodes with that tag.
C1_LeafIsAttrTagOperand ==
    (FilterEncoded /\ WithoutParams(filter.val)) =>
        /\ filterJson.val =
              JArr(<<JStr(filter.val.attr), JStr(filter.val.kind),
                     FilterOperand(filter.val)>>)
        /\ \A k \in NonLogicalKinds \ {filter.val.kind} :
              Filter_serialize(SampleLeaf(k)).v[2] # filterJson.val.v[2]
\* Eq("name","foo") has been encoded as ["name","Eq","foo"].
C1_Witness ==
    /\ filter = Some(Filter_eq("name", JStr("foo")))
    /\ filterJson = Some(JArr(<<JStr("name"), JStr("Eq"), JStr("foo")>>))

\* C2: And(cs) encodes as the 2-element array ["And", [enc(c1), ..., enc(cn)]]
\* and Or(cs) as ["Or", [enc(c1), ..., enc(cn)]], enc(ci) being the encoding
\* of the i-th child.
C2_AndOrIsTagChildren ==
    (FilterEncoded /\ filter.val.kind \in {"And", "Or"}) =>
        /\ Len(filterJson.val.v) = 2
        /\ filterJson.val =
              JArr(<<JStr(filter.val.kind),
                     JArr([i \in 1..Len(filter.val.filters) |->
                              Filter_serialize(filter.val.filters[i])])>>)
\* And([Eq("name","foo"), Gt("age",18)]) has been encoded as
\* ["And",[["name","Eq","foo"],["age","Gt",18]]].
C2_Witness ==
    /\ filter = Some(Filter_and(<<Filter_eq("name", JStr("foo")),
                                  Filter_gt("age", JInt(18))>>))
    /\ filterJson =
          Some(JArr(<<JStr("And"),
                      JArr(<<JArr(<<JStr("name"), JStr("Eq"), JStr("foo")>>),
                             JArr(<<JStr("age"), JStr("Gt"), JInt(18)>>)>>)>>))

\* C3: Not(x) encodes as the 2-element array ["Not", enc(x)]: the second
\* element is the child's encoding itself, never a one-element array around
\* it.  This holds of an encoded Not and of Filter::not applied to any tree.
C3_NotIsTagChild ==
    /\ (FilterEncoded /\ filter.val.kind = "Not") =>
          /\ Len(filterJson.val.v) = 2
          /\ filterJson.val =
                JArr(<<JStr("Not"), Filter_serialize(filter.val.filter)>>)
          /\ filterJson.val.v[2] #
                JArr(<<Filter_serialize(filter.val.filter)>>)
    /\ filter.some =>
          Filter_serialize(Filter_not(filter.val)) =
              JArr(<<JStr("Not"), Filter_serialize(filter.val)>>)
\* Not(Eq("name","foo")) has been encoded as ["Not",["name","Eq","foo"]].
C3_Witness ==
    /\ filter = Some(Filter_not(Filter_eq("name", JStr("foo"))))
    /\ filterJson =
          Some(JArr(<<JStr("Not"),
                      JArr(<<JStr("name"), JStr("Eq"), JStr("foo")>>)>>))

\* C10: for every filter tree x, Not(Not(x)) encodes as
\* ["Not", ["Not", enc(x)]], which differs from enc(x): neither Filter::not
\* nor the encoder collapses a double negation.
C10_DoubleNegationKept ==
    /\ filter.some =>
          LET x == filter.val
              nn == Filter_serialize(Filter_not(Filter_not(x)))
          IN  /\ nn = JArr(<<JStr("Not"),
                             JArr(<<JStr("Not"), Filter_serialize(x)>>)>>)
              /\ nn # Filter_serialize(x)
    /\ (FilterEncoded /\ filter.val.kind = "Not"
            /\ filter.val.filter.kind = "Not") =>
          /\ filterJson.val =
                JArr(<<JStr("Not"),
                       JArr(<<JStr("Not"),
                              Filter_serialize(filter.val.filter.filter)>>)>>)
          /\ filterJson.val # Filter_serialize(filter.val.filter.filter)
\* Not(Not(Eq("name","foo"))) has been built by Filter::not and encoded.
C10_Witness ==
    /\ filter = Some(FilterNot(FilterNot(Filter_eq("name", JStr("foo")))))
    /\ filterJson =
          Some(JArr(<<JStr("Not"),
                      JArr(<<JStr("Not"),
                             JArr(<<JStr("name"), JStr("Eq"),
                                    JStr("foo")>>)>>)>>))

(***************************************************************************)
(* Properties of the optional parameter object (checked under SpecParams). *)
(***************************************************************************)
RankEncoded == rank.some /\ rankJson.some
\* The caller set at least one option of the parameter struct.
OptionSet(params) == params.some /\ params.val.last_as_prefix.some
\* The map holding exactly the options that were set.
SetKeys(params) ==
    JMap(<<[k |-> "last_as_prefix",
            e |-> JBool(params.val.last_as_prefix.val)]>>)
\* `json` encodes a 3-element prefix followed by the parameter object only
\* if an option was set, and then by the map of exactly the set options.
ParamsOnlyWhenSet(json, params) ==
    /\ Len(json.v) \in {3, 4}
    /\ Len(json.v) = 4 => OptionSet(params)
    /\ Len(json.v) = 4 =>
          /\ json.v[4] # JNull
          /\ json.v[4] # JMap(<<>>)
          /\ json.v[4] = SetKeys(params)

\* C4: an encoded ContainsAllTokens filter or Bm25 rank expression never
\* carries its parameter object as null or as an empty map: a 4th element is
\* emitted only if the caller set at least one option, and it then holds
\* exactly the keys that were set, whatever the params field holds.
C4_ParamsNeverNullOrEmpty ==
    /\ (FilterEncoded /\ filter.val.kind = "ContainsAllTokens") =>
          ParamsOnlyWhenSet(filterJson.val, filter.val.params)
    /\ (RankEncoded /\ rank.val.kind = "Bm25") =>
          ParamsOnlyWhenSet(rankJson.val, rank.val.params)

\* C5: a ContainsAllTokens filter or Bm25 rank expression whose params are
\* absent encodes as the 3-element [attr, tag, query]; RankBy::bm25 always
\* yields that form; a 4-element encoding comes only from present params.
C5_AbsentParamsShortForm ==
    /\ (FilterEncoded /\ filter.val.kind = "ContainsAllTokens") =>
          /\ ~filter.val.params.some =>
                filterJson.val =
                    JArr(<<JStr(filter.val.attr), JStr("ContainsAllTokens"),
                           JStr(filter.val.value)>>)
          /\ Len(filterJson.val.v) = 4 => filter.val.params.some
    /\ (RankEncoded /\ rank.val.kind = "Bm25") =>
          /\ ~rank.val.params.some =>
                rankJson.val =
                    JArr(<<JStr(rank.val.attr), JStr("BM25"),
                           JStr(rank.val.query)>>)
          /\ Len(rankJson.val.v) = 4 => rank.val.params.some
    /\ \A a \in Attrs, q \in Strings :
          RankBy_serialize(RankBy_bm25(a, q)) =
              JArr(<<JStr(a), JStr("BM25"), JStr(q)>>)
\* bm25("name","quick fox") and a ContainsAllTokens without params have both
\* been encoded in the short form.
C5_Witness ==
    /\ rank = Some(RankBy_bm25("name", "quick fox"))
    /\ rankJson = Some(JArr(<<JStr("name"), JStr("BM25"), JStr("quick fox")>>))
    /\ filter = Some(FilterContainsAllTokens("name", "quick fox", None))
    /\ filterJson =
          Some(JArr(<<JStr("name"), JStr("ContainsAllTokens"),
                      JStr("quick fox")>>))

(***************************************************************************)
(* Properties of the rank encoding (checked under SpecRank).               *)
(***************************************************************************)
\* C6: Vector encodes as [attr, "ANN", vector], VectorKnn as
\* [attr, "kNN", vector] and Bm25 with params as [attr, "BM25", query, params],
\* the tags spelled exactly so, the vector an array of its elements' encodings
\* in the given order.
C6_VectorAndBm25Tags ==
    /\ (RankEncoded /\ rank.val.kind \in {"Vector", "VectorKnn"}) =>
          /\ rankJson.val =
                JArr(<<JStr(rank.val.attr),
                       JStr(IF rank.val.kind = "Vector" THEN "ANN" ELSE "kNN"),
                       JArr([i \in 1..Len(rank.val.query) |->
                                serialize_f32(rank.val.query[i])])>>)
          /\ \A i \in 1..Len(rank.val.query) :
                rank.val.query[i].cls = "finite" =>
                    rankJson.val.v[3].v[i] = JFloat(rank.val.query[i].val)
    /\ (RankEncoded /\ rank.val.kind = "Bm25" /\ rank.val.params.some) =>
          rankJson.val =
              JArr(<<JStr(rank.val.attr), JStr("BM25"), JStr(rank.val.query),
                     Bm25Params_serialize(rank.val.params.val)>>)
\* vector_knn("name",[1.0, NaN]) has been encoded under the tag "kNN".
C6_Witness ==
    /\ rank = Some(RankBy_vector_knn("name", <<Finite(1), NaN>>))
    /\ rankJson =
          Some(JArr(<<JStr("name"), JStr("kNN"), JArr(<<JFloat(1), JNull>>)>>))

\* C7: Attribute(attr, order) encodes as the 2-element array [attr, orderTag],
\* orderTag being "asc" for Asc and "desc" for Desc, in lowercase.
C7_AttributeLowercaseOrder ==
    (RankEncoded /\ rank.val.kind = "Attribute") =>
        /\ Len(rankJson.val.v) = 2
        /\ rankJson.val =
              JArr(<<JStr(rank.val.attr),
                     JStr(IF rank.val.order = "Asc" THEN "asc" ELSE "desc")>>)
        /\ rankJson.val.v[2] \notin {JStr("Asc"), JStr("Desc")}
\* desc("name") has been encoded as ["name","desc"].
C7_Witness ==
    /\ rank = Some(RankBy_desc("name"))
    /\ rankJson = Some(JArr(<<JStr("name"), JStr("desc")>>))

\* C8: Sum(rs) encodes as ["Sum", [enc(r1), ..., enc(rn)]] and Max(rs) as
\* ["Max", [enc(r1), ..., enc(rn)]], each a 2-element array whose second
\* element is the array of the children's encodings.
C8_SumMaxIsTagChildren ==
    (RankEncoded /\ rank.val.kind \in {"Sum", "Max"}) =>
        /\ Len(rankJson.val.v) = 2
        /\ rankJson.val =
              JArr(<<JStr(rank.val.kind),
                     JArr([i \in 1..Len(rank.val.subqueries) |->
                              RankBy_serialize(rank.val.subqueries[i])])>>)
\* Max([Bm25("name","quick fox"), Bm25("content","fox")]) has been encoded as
\* ["Max",[["name","BM25","quick fox"],["content","BM25","fox"]]].
C8_Witness ==
    /\ rank = Some(RankBy_max(<<RankBy_bm25("name", "quick fox"),
                                RankBy_bm25("content", "fox")>>))
    /\ rankJson =
          Some(JArr(<<JStr("Max"),
                      JArr(<<JArr(<<JStr("name"), JStr("BM25"),
                                    JStr("quick fox")>>),
                             JArr(<<JStr("content"), JStr("BM25"),
                                    JStr("fox")>>)>>)>>))

\* C9: Product(weight, r) encodes as the 3-element array
\* ["Product", w, enc(r)], w being a JSON number for the weight (never null,
\* a string or left out) and enc(r) the child's encoding, not wrapped.
C9_ProductWeightIsNumber ==
    (RankEncoded /\ rank.val.kind = "Product") =>
        /\ Len(rankJson.val.v) = 3
        /\ rankJson.val.v[1] = JStr("Product")
        /\ IsNumber(rankJson.val.v[2])
        /\ rankJson.val.v[3] = RankBy_serialize(rank.val.subquery)

(***************************************************************************)
(* Properties of the call-by-call encoder (checked under SpecEncode).      *)
(***************************************************************************)
\* Thread t's call of serialize has returned.
Done(t) == encoder[t].pc = "done"
\* What one call of the encoder, run on its own, returns for the shared tree.
SequentialEncoding ==
    IF filter.some THEN Filter_serialize(filter.val)
    ELSE RankBy_serialize(rank.val)

\* C11: encoding is deterministic: two encodings of the same tree (And, Or,
\* Sum and Max with two or more children included) have returned identical
\* outputs, and the tree a serialize call was handed is the tree that is
\* there while and after it is encoded.
C11_EncodingDeterministic ==
    /\ \A t, u \in Threads :
          (Done(t) /\ Done(u)) => encoder[t].out = encoder[u].out
    /\ \A t \in Threads :
          encoder[t].pc # "idle" => encoder[t].self = SharedTree
\* And([Eq("name","foo"), Gt("age",18)]) has been encoded twice, both times
\* as ["And",[["name","Eq","foo"],["age","Gt",18]]], and is still there.
C11_Witness ==
    /\ filter = Some(Filter_and(<<Filter_eq("name", JStr("foo")),
                                  Filter_gt("age", JInt(18))>>))
    /\ \A t \in Threads :
          /\ Done(t)
          /\ encoder[t].out =
                Some(JArr(<<JStr("And"),
                            JArr(<<JArr(<<JStr("name"), JStr("Eq"),
                                          JStr("foo")>>),
                                   JArr(<<JStr("age"), JStr("Gt"),
                                          JInt(18)>>)>>)>>))

\* C12: element order is preserved through encoding: the encoded children
\* array of And, Or, Sum and Max has one element per child, the i-th being
\* the encoding of the i-th child, and the encoded operand array of In,
\* NotIn, ContainsAny, NotContainsAny and of a vector has one element per
\* supplied value, the i-th being the i-th value (a finite float as its
\* number): nothing is reordered, dropped or duplicated.
C12_ElementOrderPreserved ==
    \A t \in Threads : Done(t) =>
        LET json == encoder[t].out.val
        IN  /\ (filter.some /\ filter.val.kind \in {"And", "Or"}) =>
                  /\ Len(json.v[2].v) = Len(filter.val.filters)
                  /\ \A i \in 1..Len(filter.val.filters) :
                        json.v[2].v[i] =
                            Filter_serialize(filter.val.filters[i])
            /\ (filter.some /\ filter.val.kind \in ValuesKinds) =>
                  /\ Len(json.v[3].v) = Len(filter.val.values)
                  /\ \A i \in 1..Len(filter.val.values) :
                        json.v[3].v[i] = filter.val.values[i]
            /\ (rank.some /\ rank.val.kind \in {"Sum", "Max"}) =>
                  /\ Len(json.v[2].v) = Len(rank.val.subqueries)
                  /\ \A i \in 1..Len(rank.val.subqueries) :
                        json.v[2].v[i] =
                            RankBy_serialize(rank.val.subqueries[i])
            /\ (rank.some /\ rank.val.kind \in {"Vector", "VectorKnn"}) =>
                  /\ Len(json.v[3].v) = Len(rank.val.query)
                  /\ \A i \in 1..Len(rank.val.query) :
                        /\ json.v[3].v[i] = serialize_f32(rank.val.query[i])
                        /\ rank.val.query[i].cls = "finite" =>
                              json.v[3].v[i] = JFloat(rank.val.query[i].val)
\* In("status",["active", 1]), a list mixing a string and a number, has been
\* encoded as ["status","In",["active",1]].
C12_Witness ==
    /\ filter = Some(Filter_in("status", <<JStr("active"), JInt(1)>>))
    /\ Done(1)
    /\ encoder[1].out =
          Some(JArr(<<JStr("status"), JStr("In"),
                      JArr(<<JStr("active"), JInt(1)>>)>>))

\* The skeleton of a tree: its root's variant and, in order, the skeletons of
\* the root's children.
RECURSIVE FilterShape(_)
FilterShape(f) ==
    IF f.kind \in {"And", "Or"}
    THEN [tag |-> f.kind,
          children |-> [i \in 1..Len(f.filters) |-> FilterShape(f.filters[i])]]
    ELSE IF f.kind = "Not"
    THEN [tag |-> "Not", children |-> <<FilterShape(f.filter)>>]
    ELSE [tag |-> f.kind, children |-> <<>>]
RECURSIVE RankShape(_)
RankShape(r) ==
    IF r.kind \in {"Sum", "Max"}
    THEN [tag |-> r.kind,
          children |->
              [i \in 1..Len(r.subqueries) |-> RankShape(r.subqueries[i])]]
    ELSE IF r.kind = "Product"
    THEN [tag |-> "Product", children |-> <<RankShape(r.subquery)>>]
    ELSE [tag |-> r.kind, children |-> <<>>]
\* The skeleton read back from an encoding: where the output nests arrays
\* and under which tags.
Unreadable == [tag |-> "?", children |-> <<>>]
RECURSIVE FilterJsonShape(_)
FilterJsonShape(j) ==
    IF j.t # "arr" \/ Len(j.v) < 2 THEN Unreadable
    ELSE IF Len(j.v) = 2 /\ j.v[1] \in {JStr("And"), JStr("Or")}
                /\ j.v[2].t = "arr"
    THEN [tag |-> j.v[1].v,
          children |-> [i \in 1..Len(j.v[2].v) |-> FilterJsonShape(j.v[2].v[i])]]
    ELSE IF Len(j.v) = 2 /\ j.v[1] = JStr("Not")
    THEN [tag |-> "Not", children |-> <<FilterJsonShape(j.v[2])>>]
    ELSE IF j.v[2].t = "str" THEN [tag |-> j.v[2].v, children |-> <<>>]
    ELSE Unreadable
RankLeafKind(tag) ==
    CASE tag = JStr("ANN") -> "Vector"
      [] tag = JStr("kNN") -> "VectorKnn"
      [] tag = JStr("BM25") -> "Bm25"
      [] tag \in {JStr("asc"), JStr("desc")} -> "Attribute"
      [] OTHER -> "?"
RECURSIVE RankJsonShape(_)
RankJsonShape(j) ==
    IF j.t # "arr" \/ Len(j.v) < 2 THEN Unreadable
    ELSE IF Len(j.v) = 2 /\ j.v[1] \in {JStr("Sum"), JStr("Max")}
                /\ j.v[2].t = "arr"
    THEN [tag |-> j.v[1].v,
          children |-> [i \in 1..Len(j.v[2].v) |-> RankJsonShape(j.v[2].v[i])]]
    ELSE IF Len(j.v) = 3 /\ j.v[1] = JStr("Product") /\ j.v[2].t # "str"
    THEN [tag |-> "Product", children |-> <<RankJsonShape(j.v[3])>>]
    ELSE [tag |-> RankLeafKind(j.v[2]), children |-> <<>>]
\* The number of serializer calls the encoding of element e takes: opening
\* and ending its sequence, and what each of its elements takes.
RECURSIVE SerializerCalls(_), CallsFrom(_, _)
SerializerCalls(e) == 2 + CallsFrom(ElementsOf(e), 1)
CallsFrom(elements, i) ==
    IF i > Len(elements) THEN 0
    ELSE (IF elements[i].is = "scalar" THEN 1
          ELSE SerializerCalls(elements[i]))
         + CallsFrom(elements, i + 1)

\* C13: whatever the nesting depth of the tree (up to MaxDepth nodes from
\* root to leaf), the encoder is never stuck before it returns, returns after
\* the number of serializer calls the tree's size determines, and its output
\* nests exactly as the tree does: every node of the tree is in the output
\* once, under its tag and at its position, nothing cut off.
C13_DeepTreesEncodeInFull ==
    \A t \in Threads :
        /\ encoder[t].pc = "encoding" =>
              /\ encoder[t].calls < SerializerCalls(encoder[t].self.val)
              /\ serializer[SerializerOf(t)] # <<>>
              /\ Len(serializer[SerializerOf(t)][1].seq) <=
                    Len(serializer[SerializerOf(t)][1].elements)
        /\ Done(t) =>
              /\ encoder[t].calls = SerializerCalls(encoder[t].self.val)
              /\ filter.some =>
                    FilterJsonShape(encoder[t].out.val) =
                        FilterShape(filter.val)
              /\ rank.some =>
                    RankJsonShape(encoder[t].out.val) = RankShape(rank.val)
\* Product(2, Sum([Bm25, Product(2, Max([Product(2, Bm25), Bm25]))])), six
\* nodes deep, has been encoded, its innermost leaf six arrays down.
C13_Witness ==
    /\ rank = Some(RankChain(6))
    /\ RankChain(6).subquery.subqueries[2] =
          RankBy_product(Finite(2),
              RankBy_max(<<RankBy_product(Finite(2),
                                          RankBy_bm25("title", "one")),
                           RankBy_bm25("content", "foo")>>))
    /\ Done(1)
    /\ encoder[1].out.val.v[3].v[2].v[2].v[3].v[2].v[1].v[3] =
          JArr(<<JStr("title"), JStr("BM25"), JStr("one")>>)

(***************************************************************************)
(* Round trip of the parameter objects (checked under SpecParams).         *)
(***************************************************************************)
\* C14: parameter objects round-trip: whether last_as_prefix is true, false
\* or unset, the parameter object an encoded ContainsAllTokens filter or
\* Bm25 rank expression carries decodes, with the struct's derived
\* Deserialize, to a parameter struct equal to the one that was encoded.
C14_ParamsRoundTrip ==
    /\ (FilterEncoded /\ filter.val.kind = "ContainsAllTokens"
            /\ filter.val.params.some) =>
          /\ Len(filterJson.val.v) = 4
          /\ ContainsAllTokensParams_deserialize(filterJson.val.v[4]) =
                Ok(filter.val.params.val)
    /\ (RankEncoded /\ rank.val.kind = "Bm25" /\ rank.val.params.some) =>
          /\ Len(rankJson.val.v) = 4
          /\ Bm25Params_deserialize(rankJson.val.v[4]) =
                Ok(rank.val.params.val)
\* A ContainsAllTokens with { last_as_prefix: Some(true) } has been encoded
\* with the object {"last_as_prefix": true}, which decodes to the boolean
\* true.
C14_Witness ==
    /\ filter = Some(FilterContainsAllTokens("name", "foo*",
                        Some(ContainsAllTokensParams(Some(TRUE)))))
    /\ filterJson.some
    /\ filterJson.val.v[4] =
          JMap(<<[k |-> "last_as_prefix", e |-> JBool(TRUE)]>>)
    /\ ContainsAllTokensParams_deserialize(filterJson.val.v[4]).val
          .last_as_prefix = Some(TRUE)

(***************************************************************************)
(* No error outcome (checked under SpecEncode).                            *)
(***************************************************************************)
\* f is a value of enum Filter: one of the variants, holding that variant's
\* fields (whatever their contents), its children values of Filter too.
RECURSIVE IsFilter(_)
IsFilter(f) ==
    /\ "kind" \in DOMAIN f
    /\ CASE f.kind \in ValueKinds \cup {"ContainsTokenSequence"} ->
                DOMAIN f = {"kind", "attr", "value"}
         [] f.kind \in ValuesKinds -> DOMAIN f = {"kind", "attr", "values"}
         [] f.kind \in PatternKinds -> DOMAIN f = {"kind", "attr", "pattern"}
         [] f.kind = "ContainsAllTokens" ->
                DOMAIN f = {"kind", "attr", "value", "params"}
         [] f.kind \in {"And", "Or"} ->
                /\ DOMAIN f = {"kind", "filters"}
                /\ \A i \in 1..Len(f.filters) : IsFilter(f.filters[i])
         [] f.kind = "Not" ->
                /\ DOMAIN f = {"kind", "filter"}
                /\ IsFilter(f.filter)
         [] OTHER -> FALSE
\* r is a value of enum RankBy.
RECURSIVE IsRankBy(_)
IsRankBy(r) ==
    /\ "kind" \in DOMAIN r
    /\ CASE r.kind \in {"Vector", "VectorKnn"} ->
                DOMAIN r = {"kind", "attr", "query"}
         [] r.kind = "Bm25" -> DOMAIN r = {"kind", "attr", "query", "params"}
         [] r.kind = "Attribute" ->
                /\ DOMAIN r = {"kind", "attr", "order"}
                /\ r.order \in Orders
         [] r.kind \in {"Sum", "Max"} ->
                /\ DOMAIN r = {"kind", "subqueries"}
                /\ \A i \in 1..Len(r.subqueries) : IsRankBy(r.subqueries[i])
         [] r.kind = "Product" ->
                /\ DOMAIN r = {"kind", "weight", "subquery"}
                /\ IsRankBy(r.subquery)
         [] OTHER -> FALSE
\* j is a JSON value.
RECURSIVE IsJson(_)
IsJson(j) ==
    /\ DOMAIN j = {"t", "v"}
    /\ CASE j.t \in {"null", "bool", "int", "float", "str"} -> TRUE
         [] j.t = "arr" -> \A i \in 1..Len(j.v) : IsJson(j.v[i])
         [] j.t = "map" -> \A i \in 1..Len(j.v) : IsJson(j.v[i].e)
         [] OTHER -> FALSE

\* C15: construction and encoding have no error outcome: what a builder
\* returns, an empty attribute name and an empty list among its inputs, is a
\* tree, and a serialize call on a tree so built ends with a JSON value (an
\* array), never with an error and never without an output.
C15_NoErrorOutcome ==
    /\ filter.some => IsFilter(filter.val)
    /\ rank.some => IsRankBy(rank.val)
    /\ \A t \in Threads :
          /\ encoder[t].out.some <=> Done(t)
          /\ Done(t) =>
                /\ IsJson(encoder[t].out.val)
                /\ encoder[t].out.val.t = "arr"
\* Filter::r#in("", vec![]) has been built and encoded as ["","In",[]].
C15_Witness ==
    /\ filter = Some(Filter_in("", <<>>))
    /\ Done(1)
    /\ encoder[1].out = Some(JArr(<<JStr(""), JStr("In"), JArr(<<>>)>>))

(***************************************************************************)
(* Constructors (checked under SpecFilter).                                *)
(***************************************************************************)
\* C16: there is one constructor per variant: whichever of the 26 Filter
\* variants a caller has built (AnyLt, AnyLte, AnyGt, AnyGte, NotContains,
\* NotContainsAny, NotGlob, NotIGlob, ContainsAllTokens and
\* ContainsTokenSequence among them), some builder function of impl Filter
\* returns that variant.
C16_OneConstructorPerVariant ==
    filter.some => filter.val.kind \in FilterBuilderKinds

(***************************************************************************)
(* Concurrent encoding (checked under SpecEncode).                         *)
(***************************************************************************)
\* C17: a tree may be shared and encoded concurrently: however the
\* serializer calls of the threads interleave, a thread whose serialize call
\* has returned holds exactly the output of one encoding run on its own, and
\* the shared tree is then the tree the call was handed.
C17_ConcurrentAsSequential ==
    \A t \in Threads : Done(t) =>
        /\ encoder[t].out = Some(SequentialEncoding)
        /\ SharedTree = encoder[t].self
\* Both threads have encoded Not(Eq("name","foo")), their serializer calls
\* interleaved, and both hold ["Not",["name","Eq","foo"]].
C17_Witness ==
    /\ overlapped
    /\ filter = Some(Filter_not(Filter_eq("name", JStr("foo"))))
    /\ \A t \in Threads :
          /\ Done(t)
          /\ encoder[t].out =
                Some(JArr(<<JStr("Not"),
                            JArr(<<JStr("name"), JStr("Eq"),
                                   JStr("foo")>>)>>))


(***************************************************************************)
(* Properties of the namespace calls (checked under SpecNamespace).        *)
(***************************************************************************)
\* The last call was ns.exists().
ExistsReturned == call.some /\ call.val.op = "exists"
\* The error is an API error of status 404.
IsNotFound(e) == e.type = "Api" /\ e.status = 404

\* C18: Namespace::exists returns Ok(true) exactly when the metadata request
\* succeeded, Ok(false) exactly when it failed with an API error of status
\* 404, and in every other case (an API error of another status, a
\* transport error) the very error the metadata request returned.
C18_ExistsMapsMetadataResult ==
    ExistsReturned =>
        LET metadata == call.val.response
            result == call.val.result
        IN  /\ (result.ok /\ result.val = TRUE) <=> metadata.ok
            /\ (result.ok /\ result.val = FALSE)
                  <=> (~metadata.ok /\ IsNotFound(metadata.err))
            /\ (~metadata.ok /\ ~IsNotFound(metadata.err))
                  => (~result.ok /\ result.err = metadata.err)
\* exists has passed on an API error of status 500 and a transport error is
\* equally passed on: here the former.
C18_Witness ==
    /\ ExistsReturned
    /\ ~call.val.response.ok
    /\ call.val.response.err.type = "Api"
    /\ call.val.response.err.status = 500
    /\ call.val.result = call.val.response

\* C19: against the server that holds a namespace from a write until a
\* delete_all and answers 404 for one it does not hold, exists answered
\* without a fault returns false while write was never called on the
\* namespace, true when the last write or delete_all call on it was a write
\* that succeeded, and false when it was a delete_all that succeeded.
C19_ExistsFollowsWrites ==
    (ExistsReturned /\ call.val.fault.kind = "none") =>
        LET h == history[call.val.name]
            result == call.val.result
        IN  /\ result.ok
            /\ ~Written(call.val.name) => result.val = FALSE
            /\ (h.some /\ h.val.last = "write" /\ h.val.ok)
                  => result.val = TRUE
            /\ (h.some /\ h.val.last = "delete_all" /\ h.val.ok)
                  => result.val = FALSE
\* exists has returned false on a namespace that was written and then
\* successfully deleted.
C19_Witness ==
    /\ ExistsReturned
    /\ call.val.fault.kind = "none"
    /\ Written(call.val.name)
    /\ history[call.val.name].val.last = "delete_all"
    /\ history[call.val.name].val.ok
    /\ call.val.result = Ok(FALSE)


(***************************************************************************)
(* Properties of the request body (checked under SpecRequest).             *)
(***************************************************************************)
\* The body holds, under the key, exactly the encoding when the field is
\* set, and has no such key when it is not.
HoldsEncoding(body, fields, key, encoding) ==
    /\ MapGet(body, key).some <=> fields[key].some
    /\ fields[key].some => MapGet(body, key).val = encoding

\* C20: in the body made of a QueryParams, `filters` is present iff a filter
\* was set and is then the Filter encoding, `rank_by` is present iff a rank
\* expression was set and is then the RankBy encoding; in the body of
\* either struct no unset field has a key and no entry is null; and the
\* default QueryParams and WriteParams serialize to the empty object.
C20_BodyHasExactlySetFields ==
    requestBody.some =>
        LET p == requestParams.val
            body == requestBody.val
        IN  /\ body.t = "map"
            /\ p.struct = "QueryParams" =>
                /\ HoldsEncoding(body, p.fields, "filters",
                        IF p.fields["filters"].some
                        THEN Filter_serialize(p.fields["filters"].val.v)
                        ELSE JNull)
                /\ HoldsEncoding(body, p.fields, "rank_by",
                        IF p.fields["rank_by"].some
                        THEN RankBy_serialize(p.fields["rank_by"].val.v)
                        ELSE JNull)
            /\ \A f \in DOMAIN p.fields :
                  ~p.fields[f].some => ~MapGet(body, f).some
            /\ \A i \in 1..Len(body.v) : body.v[i].e # JNull
            /\ Len(body.v) = FieldsSet(p)
            /\ p = Params_default(p.struct) => body = JMap(<<>>)
\* A QueryParams with only a filter and a rank expression set has been
\* serialized: the body has the two keys, rank_by first.
C20_Witness ==
    /\ requestBody.some
    /\ requestParams.val.struct = "QueryParams"
    /\ requestParams.val.fields["filters"].some
    /\ requestParams.val.fields["rank_by"].some
    /\ FieldsSet(requestParams.val) = 2
    /\ Len(requestBody.val.v) = 2
    /\ requestBody.val.v[1].k = "rank_by"
    /\ requestBody.val.v[2].k = "filters"
\* The default WriteParams has been serialized, to the empty object.
C20_WitnessDefault ==
    /\ requestBody = Some(JMap(<<>>))
    /\ requestParams = Some(Params_default("WriteParams"))


\* The last call received a response with a non-success status.
NonSuccessReceived ==
    /\ call.some
    /\ call.val.received.some
    /\ call.val.received.val.status \notin 200..299

\* C21: a response with a non-success status makes Client::request return
\* Err(Error::Api { status, message }) with the status of the response and
\* the text of its body (empty when the body cannot be read), whatever the
\* body holds; the error carries nothing but the status and the message.
C21_NonSuccessIsApiError ==
    NonSuccessReceived =>
        LET received == call.val.received.val
            response == call.val.response
        IN  /\ ~response.ok
            /\ response.err.type = "Api"
            /\ DOMAIN response.err = {"type", "status", "message"}
            /\ response.err.status = received.status
            /\ response.err.message =
                  (CASE received.body.t = "unreadable" -> ""
                     [] received.body.t = "text" -> received.body.v
                     [] OTHER -> Json_text(received.body))
\* A 422 answer whose body is a JSON object the response struct would
\* accept has been returned as the API error with that object's text.
C21_Witness ==
    /\ NonSuccessReceived
    /\ call.val.received.val.status = 422
    /\ Response_json("WriteResponse", call.val.received.val.body).ok
    /\ call.val.response =
          Err(Api(422, "{\"status\":\"error\",\"rows_affected\":0,"
                           \o "\"results\":[]}"))
\* An answer with status 503 and an unreadable body has been returned as
\* the API error with the empty message.
C21_WitnessUnreadable ==
    /\ NonSuccessReceived
    /\ call.val.response = Err(Api(503, ""))


(***************************************************************************)
(* Properties of the response decoding (checked under SpecResponse).       *)
(***************************************************************************)
\* The optional fields of WriteResponse.
WriteOptionals ==
    {"rows_upserted", "rows_patched", "rows_deleted", "rows_remaining",
     "upserted_ids", "patched_ids", "deleted_ids", "billing"}
\* The body is an object whose only key is rows_affected, an unsigned
\* integer.
OnlyRowsAffected(body) ==
    /\ body.t = "map"
    /\ Len(body.v) = 1
    /\ body.v[1].k = "rows_affected"
    /\ body.v[1].e.t = "int"
    /\ body.v[1].e.v >= 0
\* The body is an object whose `rows` is an array of objects.
HasRowObjects(body) ==
    /\ body.t = "map"
    /\ MapGet(body, "rows").some
    /\ MapGet(body, "rows").val.t = "arr"
    /\ \A i \in 1..Len(MapGet(body, "rows").val.v) :
          MapGet(body, "rows").val.v[i].t = "map"

\* C22: a write response decodes whenever rows_affected is present and
\* every other field is absent, and each optional field absent from a
\* decoded body is None; a query response without a `rows` key decodes to
\* an empty row list, and one with row objects to as many rows, in order.
C22_ResponsesDecodeWithDefaults ==
    decoded.some =>
        LET body == responseBody.val
            result == decoded.val.result
        IN  /\ (decoded.val.struct = "WriteResponse" /\ OnlyRowsAffected(body))
                  => /\ result.ok
                     /\ result.val["rows_affected"] = body.v[1].e.v
            /\ (decoded.val.struct = "WriteResponse" /\ result.ok
                  /\ body.t = "map")
                  => \A f \in WriteOptionals :
                        ~MapGet(body, f).some => result.val[f] = None
            /\ (decoded.val.struct = "QueryResponse" /\ body = JMap(<<>>))
                  => result.ok
            /\ (decoded.val.struct = "QueryResponse" /\ result.ok
                  /\ body.t = "map" /\ ~MapGet(body, "rows").some)
                  => result.val["rows"] = <<>>
            /\ (decoded.val.struct = "QueryResponse" /\ result.ok
                  /\ HasRowObjects(body))
                  => LET rows == MapGet(body, "rows").val.v
                     IN  /\ Len(result.val["rows"]) = Len(rows)
                         /\ \A i \in 1..Len(rows) :
                               result.val["rows"][i] = rows[i].v
            /\ (decoded.val.struct = "QueryResponse" /\ HasRowObjects(body)
                  /\ Len(body.v) = 1)
                  => result.ok
\* {"rows_affected": 5} has been decoded as a WriteResponse with every
\* optional field None.
C22_Witness ==
    /\ decoded.some
    /\ decoded.val.struct = "WriteResponse"
    /\ responseBody = Some(JMap(<<[k |-> "rows_affected", e |-> JInt(5)]>>))
    /\ decoded.val.result.ok
    /\ decoded.val.result.val["rows_affected"] = 5
    /\ \A f \in WriteOptionals : decoded.val.result.val[f] = None
\* A query response with two different row objects has been decoded to the
\* two rows in the order of the body.
C22_WitnessRows ==
    /\ decoded.some
    /\ decoded.val.struct = "QueryResponse"
    /\ decoded.val.result.ok
    /\ Len(decoded.val.result.val["rows"]) = 2
    /\ decoded.val.result.val["rows"][1] # decoded.val.result.val["rows"][2]
    /\ HasRowObjects(responseBody.val)


\* The encoding ends with an empty array after the elements given.
EndsWithEmptyArray(json, elements) == json = JArr(elements \o <<JArr(<<>>)>>)

\* C23: empty operand lists are encoded as given: And([]) as ["And", []],
\* Or([]) as ["Or", []], Sum([]) as ["Sum", []], Max([]) as ["Max", []],
\* In(attr, []) as [attr, "In", []] and Vector(attr, []) as
\* [attr, "ANN", []]; nothing is rejected, left out or put in their place.
C23_EmptyListsEncodedAsGiven ==
    \A t \in Threads : Done(t) =>
        LET json == encoder[t].out.val
        IN  /\ (filter.some /\ filter.val \in {FilterAnd(<<>>), FilterOr(<<>>)})
                  => EndsWithEmptyArray(json, <<JStr(filter.val.kind)>>)
            /\ (filter.some /\ filter.val.kind = "In"
                  /\ filter.val.values = <<>>)
                  => EndsWithEmptyArray(json,
                        <<JStr(filter.val.attr), JStr("In")>>)
            /\ (rank.some /\ rank.val \in {RankSum(<<>>), RankMax(<<>>)})
                  => EndsWithEmptyArray(json, <<JStr(rank.val.kind)>>)
            /\ (rank.some /\ rank.val.kind = "Vector"
                  /\ rank.val.query = <<>>)
                  => EndsWithEmptyArray(json,
                        <<JStr(rank.val.attr), JStr("ANN")>>)
\* And([]) has been encoded, to ["And", []].
C23_Witness ==
    /\ filter = Some(FilterAnd(<<>>))
    /\ \E t \in Threads :
          /\ Done(t)
          /\ encoder[t].out = Some(JArr(<<JStr("And"), JArr(<<>>)>>))
\* Vector("embedding", []) has been encoded, to ["embedding", "ANN", []].
C23_WitnessVector ==
    /\ rank = Some(RankVector("embedding", <<>>))
    /\ \E t \in Threads :
          /\ Done(t)
          /\ encoder[t].out =
                Some(JArr(<<JStr("embedding"), JStr("ANN"), JArr(<<>>)>>))


(***************************************************************************)
(* Injectivity of the filter encoding (checked under SpecFilter).          *)
(***************************************************************************)
\* The filter an encoding is read back as: by the length of the array and
\* the operator tag alone.  Two filters with the same encoding are read
\* back as the same filter, so if every filter is read back as itself no
\* two filters share an encoding.
RECURSIVE ReadBack(_)
ReadBack(json) ==
    IF json.t # "arr" \/ Len(json.v) < 2 THEN None
    ELSE IF Len(json.v) = 2
    THEN CASE json.v[1] \in {JStr("And"), JStr("Or")} /\ json.v[2].t = "arr" ->
                [kind |-> json.v[1].v,
                 filters |-> [i \in 1..Len(json.v[2].v) |->
                                ReadBack(json.v[2].v[i])]]
           [] json.v[1] = JStr("Not") -> FilterNot(ReadBack(json.v[2]))
           [] OTHER -> None
    ELSE CASE json.v[2].v \in ValueKinds ->
                FilterValue(json.v[2].v, json.v[1].v, json.v[3])
           [] json.v[2].v \in ValuesKinds ->
                FilterValues(json.v[2].v, json.v[1].v, json.v[3].v)
           [] json.v[2].v \in PatternKinds ->
                FilterPattern(json.v[2].v, json.v[1].v, json.v[3].v)
           [] json.v[2].v = "ContainsTokenSequence" ->
                FilterContainsTokenSequence(json.v[1].v, json.v[3].v)
           [] json.v[2].v = "ContainsAllTokens" ->
                FilterContainsAllTokens(json.v[1].v, json.v[3].v,
                    IF Len(json.v) = 3 THEN None
                    ELSE Some(ContainsAllTokensParams_deserialize(
                                  json.v[4]).val))
           [] OTHER -> None

\* C24: the filter encoding is injective: every filter is recovered from
\* its encoding alone, so two filters with one encoding are equal; a leaf
\* on an attribute named "And", "Or" or "Not" is not read as a logical
\* operator, and ContainsAllTokens with params not as one without.
C24_EncodingInjective ==
    filterJson.some => ReadBack(filterJson.val) = filter.val
\* A Not over a leaf on the attribute "Not" has been encoded, and so has a
\* ContainsAllTokens whose params hold nothing.
C24_Witness ==
    /\ filterJson.some
    /\ filter.val.kind = "Not"
    /\ filter.val.filter.kind = "Eq"
    /\ filter.val.filter.attr = "Not"
    /\ filterJson.val.v[1] = filterJson.val.v[2].v[1]
C24_WitnessParams ==
    /\ filterJson.some
    /\ filter.val.kind = "ContainsAllTokens"
    /\ filter.val.params = Some(ContainsAllTokensParams(None))
    /\ Len(filterJson.val.v) = 4


(***************************************************************************)
(* Properties of the requests made (checked under SpecNamespace).          *)
(***************************************************************************)
\* The method and the path each operation is to use on namespace `name`.
MethodOf(op) ==
    CASE op \in {"write", "query", "multi_query"} -> "POST"
      [] op = "delete_all" -> "DELETE"
      [] op \in {"metadata", "exists", "schema", "hint_cache_warm"} -> "GET"
PathOf(op, name) ==
    CASE op \in {"write", "delete_all"} -> "/v2/namespaces/" \o name
      [] op \in {"query", "multi_query"} ->
            "/v2/namespaces/" \o name \o "/query"
      [] op \in {"metadata", "exists"} ->
            "/v1/namespaces/" \o name \o "/metadata"
      [] op = "schema" -> "/v1/namespaces/" \o name \o "/schema"
      [] op = "hint_cache_warm" ->
            "/v1/namespaces/" \o name \o "/hint_cache_warm"

\* C25: each Namespace operation issues exactly one request, with a fixed
\* method and a path holding the namespace name verbatim: write is POST
\* /v2/namespaces/{name}, query and multi_query POST
\* /v2/namespaces/{name}/query, delete_all DELETE /v2/namespaces/{name},
\* metadata, schema and hint_cache_warm GET /v1/namespaces/{name}/metadata,
\* /schema and /hint_cache_warm; the URL is the client's base_url followed
\* by the path.
C25_OneRequestFixedMethodAndPath ==
    call.some =>
        /\ Len(call.val.requests) = 1
        /\ call.val.requests[1].method = MethodOf(call.val.op)
        /\ call.val.requests[1].url =
              client.val.base_url \o PathOf(call.val.op, call.val.name)
\* multi_query on "logs" by a client made with with_region has gone out as
\* a POST to the region's host and the query path.
C25_Witness ==
    /\ call.some
    /\ call.val.op = "multi_query"
    /\ constructed.val.by = "with_region"
    /\ call.val.requests[1].method = "POST"
    /\ call.val.requests[1].url =
          "https://gcp-us-central1.turbopuffer.com/v2/namespaces/logs/query"


\* The key the client was constructed with.
ConstructedKey ==
    IF constructed.val.by = "from_env"
    THEN constructed.val.env.TURBOPUFFER_API_KEY.val
    ELSE constructed.val.api_key
\* C26: every request carries Authorization: Bearer <api_key> with the key
\* the client was constructed with, and carries a JSON body iff the
\* operation supplied one: write, query and multi_query carry a body,
\* delete_all, metadata, schema and hint_cache_warm (and exists, which
\* calls metadata) carry none.
C26_AuthorizationAndBody ==
    call.some =>
        \A i \in 1..Len(call.val.requests) :
            /\ call.val.requests[i].Authorization =
                  "Bearer " \o ConstructedKey
            /\ call.val.requests[i].body.some <=>
                  call.val.op \in {"write", "query", "multi_query"}
\* A client built by from_env has sent a query whose request carries the
\* key of the environment and a body.
C26_Witness ==
    /\ call.some
    /\ call.val.op = "query"
    /\ constructed.val.by = "from_env"
    /\ call.val.requests[1].Authorization = "Bearer key-env"
    /\ call.val.requests[1].body.some
\* A client built by new("key-b") has sent delete_all, without a body.
C26_WitnessNoBody ==
    /\ call.some
    /\ call.val.op = "delete_all"
    /\ constructed.val.by = "new"
    /\ call.val.requests[1].Authorization = "Bearer key-b"
    /\ ~call.val.requests[1].body.some


\* What from_env was run with and what it returned.
FromEnvRan == constructed.some /\ constructed.val.by = "from_env"
IsSet(variable) == variable.state # "unset"
KeyNotSet == Err(Api(0, "TURBOPUFFER_API_KEY not set"))
\* C27: Client::from_env returns Err(Error::Api { status: 0, message:
\* "TURBOPUFFER_API_KEY not set" }) iff TURBOPUFFER_API_KEY is unset,
\* whatever TURBOPUFFER_REGION holds; otherwise it returns a client whose
\* base URL is the one Client::with_region builds for the region when
\* TURBOPUFFER_REGION is set, and the one Client::new uses when it is not.
C27_FromEnvFailsIffKeyUnset ==
    FromEnvRan =>
        LET env == constructed.val.env
            result == constructed.val.result
        IN  /\ result = KeyNotSet <=> ~IsSet(env.TURBOPUFFER_API_KEY)
            /\ IsSet(env.TURBOPUFFER_API_KEY) =>
                  /\ result.ok
                  /\ result.val.base_url =
                        IF IsSet(env.TURBOPUFFER_REGION)
                        THEN Client_with_region(
                                 env.TURBOPUFFER_API_KEY.val,
                                 env.TURBOPUFFER_REGION.val).base_url
                        ELSE Client_new(env.TURBOPUFFER_API_KEY.val).base_url
\* The same with "holds a string" in place of "is set": it holds of every
\* environment, so the claim fails only on variables set to bytes that are
\* not valid Unicode.
C27_FromEnvFailsIffKeyUnreadable ==
    FromEnvRan =>
        LET env == constructed.val.env
            result == constructed.val.result
            key == env_var(env.TURBOPUFFER_API_KEY)
            region == env_var(env.TURBOPUFFER_REGION)
        IN  /\ result = KeyNotSet <=> ~key.ok
            /\ key.ok =>
                  /\ result.ok
                  /\ result.val.api_key = key.val
                  /\ result.val.base_url =
                        IF region.ok
                        THEN Client_with_region(key.val, region.val).base_url
                        ELSE Client_new(key.val).base_url

\* from_env has run with TURBOPUFFER_API_KEY set to bytes that are not
\* valid Unicode, and has answered that the variable is not set.
C27_Witness ==
    /\ FromEnvRan
    /\ constructed.val.env.TURBOPUFFER_API_KEY = SetToNonUnicode
    /\ constructed.val.result = KeyNotSet


\* The response type each operation decodes into.
ResponseOf(op) ==
    CASE op = "write" -> "WriteResponse"
      [] op = "query" -> "QueryResponse"
      [] op = "multi_query" -> "MultiQueryResponse"
      [] op = "delete_all" -> "DeleteAllResponse"
      [] op \in {"metadata", "exists"} -> "NamespaceMetadata"
      [] op = "schema" -> "SchemaResponse"
      [] op = "hint_cache_warm" -> "HintCacheWarmResponse"
\* The body is JSON of the operation's response type.
Decodable(op, body) ==
    /\ body.t \notin {"text", "unreadable"}
    /\ Deserialize(ResponseType(ResponseOf(op)), body).ok
HttpOrApi(result) == result.ok \/ result.err.type \in {"Http", "Api"}
\* C28: no Client or Namespace operation returns Error::Json: a transport
\* failure gives Error::Http, a non-success status gives Error::Api whether
\* or not the body could be decoded, a success status with a body that
\* cannot be decoded into the response type gives Error::Http, and a
\* success status with a body that can gives Ok; so the outcome is always
\* one of Ok, Error::Http and Error::Api.
C28_NeverErrorJson ==
    /\ FromEnvRan => HttpOrApi(constructed.val.result)
    /\ call.some =>
        LET received == call.val.received
            response == call.val.response
        IN  /\ HttpOrApi(response)
            /\ HttpOrApi(call.val.result)
            /\ ~received.some =>
                  ~response.ok /\ response.err.type = "Http"
            /\ received.some /\ ~is_success(received.val.status) =>
                  ~response.ok /\ response.err.type = "Api"
            /\ (/\ received.some
                /\ is_success(received.val.status)
                /\ ~Decodable(call.val.op, received.val.body)) =>
                  ~response.ok /\ response.err.type = "Http"
            /\ (/\ received.some
                /\ is_success(received.val.status)
                /\ Decodable(call.val.op, received.val.body)) =>
                  response.ok
\* A query was answered with status 200 and a body that is not JSON, and
\* returned Error::Http.
C28_Witness ==
    /\ call.some
    /\ call.val.op = "query"
    /\ call.val.received.some
    /\ call.val.received.val.status = 200
    /\ call.val.received.val.body.t = "text"
    /\ ~call.val.response.ok
    /\ call.val.response.err.type = "Http"
\* A hint_cache_warm call got no response, and returned Error::Http.
C28_WitnessTransport ==
    /\ call.some
    /\ call.val.op = "hint_cache_warm"
    /\ ~call.val.received.some
    /\ ~call.val.result.ok
    /\ call.val.result.err.type = "Http"


(***************************************************************************)
(* Id (types/id.rs): an unsigned 64-bit number or a string, converted from *)
(* integers and strings and read and written untagged.                     *)
(*                                                                         *)
(* A 64-bit value does not fit the integers of the model checker, so an    *)
(* unsigned value is held as its limbs of 16 bits, most significant first  *)
(* (u64: four limbs, the low half of it: two), and a signed value as its   *)
(* sign and the limbs of its magnitude.                                    *)
(***************************************************************************)
Limb == 2^16
\* The limbs of a u64, and of the 32 bits of an i32.
u64_LIMBS == 64 \div 16
i32_LIMBS == 32 \div 16
Signed(neg, mag) == [neg |-> neg, mag |-> mag]
\* The order of unsigned values of the same number of limbs.
BigLess(a, b) ==
    \E i \in 1..Len(a) :
        /\ a[i] < b[i]
        /\ \A j \in 1..(i - 1) : a[j] = b[j]
\* The carry into limb i of a + b (0 is the carry out of the sum).
RECURSIVE Carry(_, _, _)
Carry(a, b, i) ==
    IF i = Len(a) THEN 0
    ELSE (a[i + 1] + b[i + 1] + Carry(a, b, i + 1)) \div Limb
\* a + b in the width of a; !a; -a in the width of a.
wrapping_add(a, b) ==
    [i \in 1..Len(a) |-> (a[i] + b[i] + Carry(a, b, i)) % Limb]
BitNot(a) == [i \in 1..Len(a) |-> Limb - 1 - a[i]]
BigOne(n) == [i \in 1..n |-> IF i = n THEN 1 ELSE 0]
BigZero(n) == [i \in 1..n |-> 0]
wrapping_neg(a) == wrapping_add(BitNot(a), BigOne(Len(a)))
\* The bits of a signed value in n limbs: two's complement.
Bits(v, n) ==
    LET low == SubSeq(v.mag, Len(v.mag) - n + 1, Len(v.mag))
    IN  IF v.neg THEN wrapping_neg(low) ELSE low
\* A widening cast of a signed type fills the new bits with the sign bit.
sign_extend(bits, n) ==
    [i \in 1..(n - Len(bits)) |->
        IF bits[1] >= Limb \div 2 THEN Limb - 1 ELSE 0] \o bits
\* A widening cast that fills the new bits with zeros.
zero_extend(bits, n) == [i \in 1..(n - Len(bits)) |-> 0] \o bits
\* `v as u64` of an i64: the same width, the bits are kept.
i64_as_u64(v) == Bits(v, u64_LIMBS)
\* `v as u64` of an i32, widened as an unsigned value is.
i32_as_u64_ZeroExtended(v) == zero_extend(Bits(v, i32_LIMBS), u64_LIMBS)
\* `v as u64` of an i32: widened with its sign.
i32_as_u64(v) == sign_extend(Bits(v, i32_LIMBS), u64_LIMBS)

\* enum Id { Uint(u64), String(String) }
Id_Uint(n) == [variant |-> "Uint", n |-> n]
Id_String(s) == [variant |-> "String", s |-> s]
\* impl From<u64> for Id
Id_from_u64(v) == Id_Uint(v)
\* impl From<i64> for Id
Id_from_i64(v) == Id_Uint(i64_as_u64(v))
\* impl From<i32> for Id
Id_from_i32(v) == Id_Uint(i32_as_u64(v))
\* impl From<&str> for Id
Id_from_str(v) == Id_String(v)
\* impl From<String> for Id
Id_from_String(v) == Id_String(v)

\* A JSON integer by its sign and the limbs of its magnitude.
JWide(neg, mag) == [t |-> "int", v |-> Signed(neg, mag)]
\* #[derive(Serialize)] #[serde(untagged)]: the value of the variant alone.
Id_serialize(self) ==
    IF self.variant = "Uint" THEN JWide(FALSE, self.n) ELSE JStr(self.s)
\* u64::deserialize of a buffered value: a non-negative integer of at most
\* 64 bits (a larger one is read as a float by the JSON parser).
u64_deserialize(json) ==
    IF json.t = "int" /\ ~json.v.neg /\ Len(json.v.mag) = u64_LIMBS
    THEN Ok(json.v.mag)
    ELSE Err("invalid type")
\* String::deserialize of a buffered value
String_deserialize(json) ==
    IF json.t = "str" THEN Ok(json.v) ELSE Err("invalid type")
\* A negative number is read as From<i64> converts it.
Id_deserialize_Wrapping(json) ==
    IF json.t = "int" /\ Len(json.v.mag) = u64_LIMBS
    THEN Ok(Id_from_i64(json.v))
    ELSE IF String_deserialize(json).ok
    THEN Ok(Id_String(String_deserialize(json).val))
    ELSE Err("data did not match any variant of untagged enum Id")
\* #[derive(Deserialize)] #[serde(untagged)]: the first variant, in the
\* order of declaration, that the value can be read as.
Id_deserialize(json) ==
    IF u64_deserialize(json).ok
    THEN Ok(Id_Uint(u64_deserialize(json).val))
    ELSE IF String_deserialize(json).ok
    THEN Ok(Id_String(String_deserialize(json).val))
    ELSE Err("data did not match any variant of untagged enum Id")

\* The magnitudes converted: 0, 1, 123, 2^16, 2^31 - 1, 2^31, 2^32,
\* 2^63 - 1, 2^63 and 2^64 - 1.
Pow2_31 == <<0, 0, Limb \div 2, 0>>
Pow2_63 == <<Limb \div 2, 0, 0, 0>>
Magnitudes ==
    {<<0, 0, 0, 0>>, <<0, 0, 0, 1>>, <<0, 0, 0, 123>>, <<0, 0, 1, 0>>,
     <<0, 0, Limb \div 2 - 1, Limb - 1>>, Pow2_31, <<0, 1, 0, 0>>,
     <<Limb \div 2 - 1, Limb - 1, Limb - 1, Limb - 1>>, Pow2_63,
     <<Limb - 1, Limb - 1, Limb - 1, Limb - 1>>}
\* The values of a signed type whose smallest value is -min.
SignedValues(min) ==
    {Signed(FALSE, m) : m \in {n \in Magnitudes : BigLess(n, min)}}
    \cup {Signed(TRUE, m) :
            m \in {n \in Magnitudes : /\ n # BigZero(u64_LIMBS)
                                      /\ ~BigLess(min, n)}}
I64Values == SignedValues(Pow2_63)
I32Values == SignedValues(Pow2_31)
IdStrings == {"123", "abc", "0", ""}
\* What arrives where an Id is expected.
IdWire ==
    <<JWide(FALSE, <<0, 0, 0, 123>>), JWide(FALSE, <<0, 0, 0, 0>>),
      JWide(FALSE, <<Limb - 1, Limb - 1, Limb - 1, Limb - 1>>),
      JWide(TRUE, <<0, 0, 0, 1>>), JWide(TRUE, <<0, 0, 0, 123>>),
      JFloat(123), JStr("123"), JStr("abc"), JStr(""),
      JNull, JBool(TRUE), JArr(<<>>)>>

IdBuilt(from, v, built) ==
    /\ id = None
    /\ idJson = None
    /\ idFrom' = Some([ty |-> from, v |-> v])
    /\ id' = Some(built)
    /\ UNCHANGED <<idJson, idDecoded>>
    /\ UNCHANGED <<callerVars, encodingVars, namespaceVars, requestVars>>
\* let id: Id = v.into(), for a u64
IdFromU64 == \E v \in Magnitudes : IdBuilt("u64", v, Id_from_u64(v))
\* for an i64
IdFromI64 == \E v \in I64Values : IdBuilt("i64", v, Id_from_i64(v))
\* for an i32
IdFromI32 == \E v \in I32Values : IdBuilt("i32", v, Id_from_i32(v))
\* for a &str
IdFromStr == \E v \in IdStrings : IdBuilt("&str", v, Id_from_str(v))
\* for a String
IdFromString == \E v \in IdStrings : IdBuilt("String", v, Id_from_String(v))
\* serde_json::to_value(&id)
SerializeId ==
    /\ id.some
    /\ idJson = None
    /\ idJson' = Some(Id_serialize(id.val))
    /\ UNCHANGED <<idFrom, id, idDecoded>>
    /\ UNCHANGED <<callerVars, encodingVars, namespaceVars, requestVars>>
\* A value arrives from elsewhere.
ReceiveId ==
    /\ id = None
    /\ idJson = None
    /\ \E i \in 1..Len(IdWire) : idJson' = Some(IdWire[i])
    /\ UNCHANGED <<idFrom, id, idDecoded>>
    /\ UNCHANGED <<callerVars, encodingVars, namespaceVars, requestVars>>
\* serde_json::from_value::<Id>(json)
DeserializeId ==
    /\ idJson.some
    /\ idDecoded = None
    /\ idDecoded' = Some(Id_deserialize(idJson.val))
    /\ UNCHANGED <<idFrom, id, idJson>>
    /\ UNCHANGED <<callerVars, encodingVars, namespaceVars, requestVars>>

NextId ==
    \/ IdFromU64
    \/ IdFromI64
    \/ IdFromI32
    \/ IdFromStr
    \/ IdFromString
    \/ SerializeId
    \/ ReceiveId
    \/ DeserializeId
SpecId == Init /\ [][NextId]_vars


(***************************************************************************)
(* Properties of Id (checked under SpecId).                                *)
(***************************************************************************)
\* An Id was converted from a signed integer.
FromSigned == idFrom.some /\ idFrom.val.ty \in {"i64", "i32"}
\* r = v mod 2^64, for a signed v of magnitude below 2^64: r is v when v is
\* not negative, and r + |v| is 2^64 when it is.
IsMod2_64(r, v) ==
    IF v.neg
    THEN /\ wrapping_add(r, v.mag) = BigZero(u64_LIMBS)
         /\ Carry(r, v.mag, 0) = 1
    ELSE r = v.mag
\* C29: converting a signed integer to an Id never fails and is exact only
\* for non-negative inputs: for every i64 or i32 value v, Id::from(v) is
\* Id::Uint(v mod 2^64), so a negative v wraps to 2^64 - |v|, which is
\* 2^63 at least and so never the value converted.
C29_SignedWrapsMod2_64 ==
    FromSigned =>
        /\ id.some
        /\ id.val.variant = "Uint"
        /\ IsMod2_64(id.val.n, idFrom.val.v)
        /\ idFrom.val.v.neg => ~BigLess(id.val.n, Pow2_63)
\* -1 of type i32 has become Id::Uint(18446744073709551615), which is
\* 2^64 - 1: every limb is 2^16 - 1.
C29_Witness ==
    /\ FromSigned
    /\ idFrom.val.ty = "i32"
    /\ idFrom.val.v = Signed(TRUE, <<0, 0, 0, 1>>)
    /\ id = Some(Id_Uint(<<65535, 65535, 65535, 65535>>))
\* The smallest i64 has become Id::Uint(2^63).
C29_WitnessMin ==
    /\ FromSigned
    /\ idFrom.val.ty = "i64"
    /\ idFrom.val.v = Signed(TRUE, Pow2_63)
    /\ id = Some(Id_Uint(Pow2_63))


\* A JSON number, a JSON string.
IsJsonNumber(json) == json.t \in {"int", "float"}
IsJsonString(json) == json.t = "str"
\* An Id encodes as the bare value of its variant, and decoding that
\* encoding gives back an equal Id.
IdRoundTrips ==
    /\ (id.some /\ idJson.some) =>
          idJson.val = IF id.val.variant = "Uint"
                       THEN JWide(FALSE, id.val.n)
                       ELSE JStr(id.val.s)
    /\ (id.some /\ idDecoded.some) => idDecoded.val = Ok(id.val)
\* A JSON string decodes to Id::String of the same characters, which is no
\* Id::Uint.
StringStaysString ==
    (idDecoded.some /\ IsJsonString(idJson.val)) =>
        /\ idDecoded.val = Ok(Id_String(idJson.val.v))
        /\ idDecoded.val.val.variant # "Uint"
        /\ idJson.val.v = "123" =>
              idDecoded.val.val # Id_Uint(<<0, 0, 0, 123>>)
\* C30 (as stated): Id round-trips through its untagged wire form:
\* Id::Uint(n) encodes as the JSON number n and Id::String(s) as the JSON
\* string s, and decoding the encoding of an Id gives an equal Id; a JSON
\* number always decodes to Uint and a JSON string always to String, so
\* "123" stays Id::String and never equals Id::Uint(123).
C30_Original ==
    /\ IdRoundTrips
    /\ StringStaysString
    /\ (idDecoded.some /\ IsJsonNumber(idJson.val)) =>
          idDecoded.val.ok /\ idDecoded.val.val.variant = "Uint"
\* C30 (amended): the same, except that only a JSON number that is an
\* integer from 0 to 2^64 - 1 decodes to Uint, with that value; a negative
\* or fractional number is rejected, and no number decodes to String.
C30_IdRoundTrips ==
    /\ IdRoundTrips
    /\ StringStaysString
    /\ (idDecoded.some /\ IsJsonNumber(idJson.val)) =>
          IF idJson.val.t = "int" /\ ~idJson.val.v.neg
          THEN idDecoded.val = Ok(Id_Uint(idJson.val.v.mag))
          ELSE ~idDecoded.val.ok
\* Id::Uint(2^64 - 1), converted from the i64 -1, has been encoded and
\* decoded back.
C30_Witness ==
    /\ idFrom.some
    /\ idFrom.val.ty = "i64"
    /\ id = Some(Id_Uint(<<65535, 65535, 65535, 65535>>))
    /\ idJson = Some(JWide(FALSE, <<65535, 65535, 65535, 65535>>))
    /\ idDecoded = Some(Ok(id.val))
\* The string "123" has arrived and has been decoded as Id::String("123").
C30_WitnessString ==
    /\ id = None
    /\ idJson = Some(JStr("123"))
    /\ idDecoded = Some(Ok(Id_String("123")))
\* The number -1 has arrived and has been rejected.
C30_WitnessNegative ==
    /\ idJson = Some(JWide(TRUE, <<0, 0, 0, 1>>))
    /\ idDecoded.some
    /\ ~idDecoded.val.ok

=============================================================================
